---- MODULE Spec2Model ----
(***************************************************************************)
(* State-machine model of the adaptive core of Adaptive_Rag:               *)
(*   ReinforcementLearner (reinforcement_learning.py), the strategy bandit *)
(*   QueryClusterer       (query_clustering.py), the query clusters        *)
(*   AdaptiveRAG          (rag.py), the orchestrator                       *)
(* and of the three JSON files under ./rl_data that persist one user.      *)
(*                                                                         *)
(* A text is a sequence of tokens.  For a query the tokens are its         *)
(* whitespace-separated words (a word is one letter, in upper or lower     *)
(* case, or is spelled out); for a cluster name they are its characters.   *)
(* An Optional[str] is a sequence of at most one text: <<>> is None, <<t>> *)
(* is the string t.                                                        *)
(***************************************************************************)
EXTENDS Integers, Sequences, FiniteSets, TLC

VARIABLES
    strategy_stats,     \* ReinforcementLearner.strategy_stats (in memory)
    feedback_history,   \* ReinforcementLearner.feedback_history (in memory)
    clusters,           \* QueryClusterer.clusters (in memory, insertion ordered)
    strategy_file,      \* ./rl_data/strategy_<user>.json
    feedback_file,      \* ./rl_data/feedback_<user>.json
    clusters_file,      \* ./rl_data/query_clusters_<user>.json
    alive,              \* TRUE while a constructed instance of the core exists
    saved,              \* history variable: the files some save has opened
    events,             \* history variable: the submit_feedback events so far
    last,               \* the last operation: its name, arguments and outcome
    session_state,      \* st.session_state of the chat page that owns the instance
    peer,               \* a second instance of the core, of this user or another
    peer_files          \* the three files of the other user

vars == <<strategy_stats, feedback_history, clusters, strategy_file,
          feedback_file, clusters_file, alive, saved, events, last,
          session_state, peer, peer_files>>

\* what the operations of the first instance called on their own leave alone
others == <<session_state, peer, peer_files>>

----------------------------------------------------------------------------
(* Bounds of the model *)

\* feedback entries held in memory
MaxHistory == 2
\* queries held by the cluster map, over all clusters
MaxQueries == 3
\* feedback events accumulated in the cluster map, over all clusters
MaxPerf == 1
\* feedback entries of a run that alternates selection and feedback
MaxRounds == 6
\* feedback events one strategy has in one cluster's performance map
MaxUses == 3
\* messages of a chat between two clears
MaxMessages == 2

----------------------------------------------------------------------------
(* Generic helpers *)

None == <<>>
Some(t) == <<t>>

\* Python truthiness of an Optional[str]: None and "" are falsy
Truthy(opt) == opt # None /\ opt[1] # <<>>

RECURSIVE SumSeq(_)
SumSeq(s) == IF s = <<>> THEN 0 ELSE Head(s) + SumSeq(Tail(s))

\* str.lower() on one token
LowerChar(c) ==
    CASE c = "P" -> "p"
      [] c = "C" -> "c"
      [] c = "What" -> "what"
      [] c = "Explain" -> "explain"
      [] OTHER -> c

\* str.lower()
Lower(t) == [i \in DOMAIN t |-> LowerChar(t[i])]

\* str.replace(' ', '_')
ReplaceSpaces(t) == [i \in DOMAIN t |-> IF t[i] = " " THEN "_" ELSE t[i]]

\* str.strip()
RECURSIVE LStrip(_)
LStrip(t) == IF t # <<>> /\ Head(t) = " " THEN LStrip(Tail(t)) ELSE t

RECURSIVE RStrip(_)
RStrip(t) ==
    IF t # <<>> /\ t[Len(t)] = " " THEN RStrip(SubSeq(t, 1, Len(t) - 1)) ELSE t

Strip(t) == RStrip(LStrip(t))

----------------------------------------------------------------------------
(* ReinforcementLearner: the strategy bandit *)

\* self.strategies
strategies == <<"concise", "detailed", "structured", "example_driven", "analytical">>

StrategySet == {strategies[i] : i \in DOMAIN strategies}

\* the table with only its default, k_values.get(strategy, 4)
k_values_default(s) == 4

\* k_values
k_values(s) ==
    CASE s = "concise" -> 3
      [] s = "detailed" -> 5
      [] s = "structured" -> 4
      [] s = "example_driven" -> 4
      [] s = "analytical" -> 6
      [] OTHER -> 4

\* the default of _load_strategy_stats
DefaultStats == [s \in StrategySet |-> [wins |-> 0, total |-> 0, reward_sum |-> 0]]

\* json.dump of strategy_stats: the members of the object in insertion order
DumpStats(stats) ==
    [i \in DOMAIN strategies |->
        <<strategies[i], stats[strategies[i]].wins, stats[strategies[i]].total,
          stats[strategies[i]].reward_sum>>]

\* json.load of a strategy-stats document
LoadStats(doc) ==
    [s \in {doc[i][1] : i \in DOMAIN doc} |->
        LET i == CHOOSE j \in DOMAIN doc : doc[j][1] = s
        IN  [wins |-> doc[i][2], total |-> doc[i][3], reward_sum |-> doc[i][4]]]

\* json.dump of feedback_history: one object per entry, in list order
DumpHistory(h) ==
    [i \in DOMAIN h |->
        <<h[i].query, h[i].strategy, h[i].feedback, h[i].reward, h[i].cluster>>]

\* json.load of a feedback-history document
LoadHistory(doc) ==
    [i \in DOMAIN doc |->
        [query |-> doc[i][1], strategy |-> doc[i][2], feedback |-> doc[i][3],
         reward |-> doc[i][4], cluster |-> doc[i][5]]]

(* A file on disk.  kind is "absent" (never created), "json" (a complete   *)
(* document, doc), "empty" (truncated by open(..., 'w'), nothing written   *)
(* yet) or "partial" (a proper prefix of a document was written).          *)
Absent == [kind |-> "absent", doc |-> <<>>]
Json(d) == [kind |-> "json", doc |-> d]
Truncated == [kind |-> "empty", doc |-> <<>>]
Partial == [kind |-> "partial", doc |-> <<>>]

\* the reward with a positive feedback worth two
RewardDoubled(feedback) == IF feedback > 0 THEN 2 ELSE -1

\* the reward with >= in place of >
RewardNonNegative(feedback) == IF feedback >= 0 THEN 1 ELSE -1

\* reward = 1.0 if feedback > 0 else -1.0
Reward(feedback) == IF feedback > 0 THEN 1 ELSE -1

\* the entry record_feedback builds (timestamp, response[:200] and
\* retrieved_docs[:2] are payload no decision reads; they are left out)
FeedbackEntry(query, strategy, feedback, cluster_name) ==
    [query |-> query, strategy |-> strategy, feedback |-> feedback,
     reward |-> Reward(feedback), cluster |-> cluster_name]

\* the update without its total += 1
UpdateStatsNoTotal(stats, strategy, reward) ==
    [stats EXCEPT ![strategy] =
        [wins |-> IF reward > 0 THEN @.wins + 1 ELSE @.wins,
         total |-> @.total,
         reward_sum |-> @.reward_sum + reward]]

\* the update with a negative reward taking a win back
UpdateStatsPenalise(stats, strategy, reward) ==
    [stats EXCEPT ![strategy] =
        [wins |-> IF reward > 0 THEN @.wins + 1 ELSE @.wins - 1,
         total |-> @.total + 1,
         reward_sum |-> @.reward_sum + reward]]

\* the three statements that update self.strategy_stats[strategy]
UpdateStats(stats, strategy, reward) ==
    [stats EXCEPT ![strategy] =
        [wins |-> IF reward > 0 THEN @.wins + 1 ELSE @.wins,
         total |-> @.total + 1,
         reward_sum |-> @.reward_sum + reward]]

----------------------------------------------------------------------------
(* select_strategy: cluster bias, epsilon-greedy, UCB1 *)

\* float('inf'), above every finite score of the model
Infinity == 1000000000

\* np.log(1), np.log(2), ... in thousandths
LogTable ==
    <<0, 693, 1099, 1386, 1609, 1792, 1946, 2079,
      2197, 2303, 2398, 2485, 2565, 2639, 2708, 2773,
      2833, 2890, 2944, 2996, 3045, 3091, 3135, 3178,
      3219, 3258, 3296, 3332, 3367, 3401, 3434, 3466,
      3497, 3526, 3555, 3584, 3611, 3638, 3664, 3689,
      3714, 3738, 3761, 3784, 3807, 3829, 3850, 3871>>

\* np.log(n) in thousandths, for the pull counts the model reaches
LogMilli(n) == IF n \in DOMAIN LogTable THEN LogTable[n] ELSE LogTable[Len(LogTable)]

\* floor of the square root, by bisection on lo..hi
RECURSIVE ISqrtIn(_, _, _)
ISqrtIn(x, lo, hi) ==
    IF lo >= hi THEN lo
    ELSE LET mid == (lo + hi + 1) \div 2
         IN  IF mid * mid <= x THEN ISqrtIn(x, mid, hi) ELSE ISqrtIn(x, lo, mid - 1)

ISqrt(x) == ISqrtIn(x, 0, 4000)

\* total_pulls = sum(self.strategy_stats[s]["total"] for s in self.strategies)
TotalPulls(stats) == SumSeq([i \in DOMAIN strategies |-> stats[strategies[i]].total])

\* one entry of ucb_scores, in thousandths:
\*   avg_reward + np.sqrt(2 * np.log(total_pulls + 1) / n), or inf when n == 0
UcbScore(stats, s) ==
    LET n == stats[s].total
    IN  IF n = 0 THEN Infinity
        ELSE (stats[s].reward_sum * 1000) \div n
             + ISqrt((2 * LogMilli(TotalPulls(stats) + 1) * 1000) \div n)

\* an argmax that returns the last index holding the maximum
ArgMaxLast(scores) ==
    CHOOSE i \in DOMAIN scores :
        /\ \A j \in DOMAIN scores : scores[j] <= scores[i]
        /\ \A j \in (i + 1)..Len(scores) : scores[j] < scores[i]

\* np.argmax(ucb_scores): the first index holding the maximum
ArgMax(scores) ==
    CHOOSE i \in DOMAIN scores :
        /\ \A j \in DOMAIN scores : scores[j] <= scores[i]
        /\ \A j \in 1..(i - 1) : scores[j] < scores[i]

UcbChoice(stats) ==
    strategies[ArgMax([i \in DOMAIN strategies |-> UcbScore(stats, strategies[i])])]

\* the guard without its test of at least 3 uses
ClusterBiasAnyTotal(stats, cluster_best_strategy) ==
    /\ cluster_best_strategy # None
    /\ cluster_best_strategy[1] # ""
    /\ cluster_best_strategy[1] \in StrategySet
    /\ stats[cluster_best_strategy[1]].total > 0
    /\ 10 * stats[cluster_best_strategy[1]].reward_sum
           > 3 * stats[cluster_best_strategy[1]].total

\* the guard of the cluster-bias return, before its random draw
ClusterBiasQualifies(stats, cluster_best_strategy) ==
    /\ cluster_best_strategy # None
    /\ cluster_best_strategy[1] # ""
    /\ cluster_best_strategy[1] \in StrategySet
    /\ stats[cluster_best_strategy[1]].total >= 3
    \* avg_reward = reward_sum / total > 0.3
    /\ 10 * stats[cluster_best_strategy[1]].reward_sum
           > 3 * stats[cluster_best_strategy[1]].total

\* select_strategy where a cluster strategy that qualified and lost its draw
\* sends the call to the UCB choice without an exploration draw
SelectedStrategyNested(stats, cluster_best_strategy, bias_draw, explore_draw, choice) ==
    IF ClusterBiasQualifies(stats, cluster_best_strategy)
    THEN IF bias_draw THEN cluster_best_strategy[1] ELSE UcbChoice(stats)
    ELSE IF explore_draw THEN choice ELSE UcbChoice(stats)

\* select_strategy.  bias_draw is np.random.random() < 0.7, explore_draw is
\* np.random.random() < self.epsilon, choice is np.random.choice(self.strategies);
\* each is read only on the path that draws it.
SelectedStrategy(stats, cluster_best_strategy, bias_draw, explore_draw, choice) ==
    IF ClusterBiasQualifies(stats, cluster_best_strategy) /\ bias_draw
    THEN cluster_best_strategy[1]
    ELSE IF explore_draw THEN choice ELSE UcbChoice(stats)

select_strategy(stats, cluster_best_strategy, bias_draw, explore_draw, choice) ==
    LET s == SelectedStrategy(stats, cluster_best_strategy, bias_draw,
                              explore_draw, choice)
    IN  <<s, k_values(s)>>

\* select_strategy letting a complex query go to the analytical strategy
select_strategy_by_complexity(stats, query, query_complexity, cluster_best_strategy, bias_draw, explore_draw, choice) ==
    IF query_complexity = "complex"
    THEN <<"analytical", k_values("analytical")>>
    ELSE select_strategy(stats, cluster_best_strategy, bias_draw,
                         explore_draw, choice)

\* select_strategy as it is declared and called: query and query_complexity
\* are parameters that the body never reads
select_strategy_call(stats, query, query_complexity, cluster_best_strategy, bias_draw, explore_draw, choice) ==
    select_strategy(stats, cluster_best_strategy, bias_draw, explore_draw,
                    choice)

----------------------------------------------------------------------------
(* get_performance_metrics and get_query_improvement: the read side *)

\* round(num / den, 3) in thousandths, den > 0 (a tie goes to the even
\* thousandth; a tie needs a total that is a multiple of 16)
RoundMilli(num, den) ==
    LET fl == (1000 * num) \div den
        rem == 1000 * num - fl * den
    IN  IF 2 * rem > den THEN fl + 1
        ELSE IF 2 * rem < den THEN fl
        ELSE IF fl % 2 = 0 THEN fl ELSE fl + 1

\* get_performance_metrics counting the interactions from the totals
get_performance_metrics_from_stats(stats, history) ==
    [total_interactions |-> TotalPulls(stats),
     positive_feedback |->
         Cardinality({i \in DOMAIN history : history[i].reward > 0}),
     negative_feedback |->
         Cardinality({i \in DOMAIN history : history[i].reward < 0}),
     strategy_performance |->
         [s \in StrategySet |->
             [total_uses |-> stats[s].total,
              win_rate |-> IF stats[s].total > 0
                           THEN RoundMilli(stats[s].wins, stats[s].total)
                           ELSE 0,
              avg_reward |-> IF stats[s].total > 0
                             THEN RoundMilli(stats[s].reward_sum, stats[s].total)
                             ELSE 0]]]

\* get_performance_metrics; win_rate and avg_reward in thousandths
get_performance_metrics(stats, history) ==
    [total_interactions |-> Len(history),
     positive_feedback |->
         Cardinality({i \in DOMAIN history : history[i].reward > 0}),
     negative_feedback |->
         Cardinality({i \in DOMAIN history : history[i].reward < 0}),
     strategy_performance |->
         [s \in StrategySet |->
             [total_uses |-> stats[s].total,
              win_rate |-> IF stats[s].total > 0
                           THEN RoundMilli(stats[s].wins, stats[s].total)
                           ELSE 0,
              avg_reward |-> IF stats[s].total > 0
                             THEN RoundMilli(stats[s].reward_sum, stats[s].total)
                             ELSE 0]]]

\* set(text.split())
Words(text) == {text[i] : i \in DOMAIN text}

\* _calculate_similarity: the quotient len(intersection) / len(union) as the
\* fraction <<numerator, denominator>>, 0.0 when either text has no word
calculate_similarity(text1, text2) ==
    IF Words(text1) = {} \/ Words(text2) = {} THEN <<0, 1>>
    ELSE <<Cardinality(Words(text1) \cap Words(text2)),
           Cardinality(Words(text1) \cup Words(text2))>>

\* the test with >= in place of >
IsSimilarInclusive(current_query, past_query) ==
    LET sim == calculate_similarity(Lower(current_query), Lower(past_query))
    IN  5 * sim[1] >= 3 * sim[2]

\* the test with < in place of >
IsSimilarFlipped(current_query, past_query) ==
    LET sim == calculate_similarity(Lower(current_query), Lower(past_query))
    IN  5 * sim[1] < 3 * sim[2]

\* self._calculate_similarity(current_query.lower(), past_query) > 0.6,
\* past_query being entry["query"].lower()
IsSimilar(current_query, past_query) ==
    LET sim == calculate_similarity(Lower(current_query), Lower(past_query))
    IN  5 * sim[1] > 3 * sim[2]

\* seq[-n:]
LastN(seq, n) == SubSeq(seq, IF Len(seq) > n THEN Len(seq) - n + 1 ELSE 1, Len(seq))

\* self.feedback_history[-20:]
Window == 20

\* similar_queries[-3:]
MaxSimilar == 3

\* get_query_improvement (the timestamp of an entry is left out)
get_query_improvement(history, current_query) ==
    LET Matches(entry) == IsSimilar(current_query, entry.query)
        matching == SelectSeq(LastN(history, Window), Matches)
        similar_queries ==
            [i \in DOMAIN matching |->
                [query |-> matching[i].query, strategy |-> matching[i].strategy,
                 feedback |-> matching[i].feedback]]
    IN  [has_similar |-> Len(similar_queries) > 0,
         similar_queries |-> LastN(similar_queries, MaxSimilar),
         learning_active |-> Len(similar_queries) > 0]


----------------------------------------------------------------------------
(* QueryClusterer: the query clusters *)

\* self.clusters is a dict: a sequence of [name, queries, perf] in insertion
\* order; perf (strategy_performance) is a dict too, a sequence of
\* [strategy, total, reward_sum] in insertion order.

Names(cl) == {cl[i].name : i \in DOMAIN cl}

\* the position of key name in the dict, 0 when it is not a key
IndexOf(cl, name) ==
    IF name \in Names(cl) THEN CHOOSE i \in DOMAIN cl : cl[i].name = name ELSE 0

NewCluster(name, query) == [name |-> name, queries |-> <<query>>, perf |-> <<>>]

\* self.clusters[name] = {'queries': [query], 'strategy_performance': {}}:
\* a new key goes last, an existing key keeps its place and loses its value
SetCluster(cl, name, query) ==
    IF name \in Names(cl)
    THEN [cl EXCEPT ![IndexOf(cl, name)] = NewCluster(name, query)]
    ELSE Append(cl, NewCluster(name, query))

\* self.clusters[name]['queries'].append(query)
AppendQuery(cl, name, query) ==
    [cl EXCEPT ![IndexOf(cl, name)].queries = Append(@, query)]

\* json.dump of the cluster map
DumpClusters(cl) ==
    [i \in DOMAIN cl |->
        <<cl[i].name, cl[i].queries,
          [j \in DOMAIN cl[i].perf |->
              <<cl[i].perf[j].strategy, cl[i].perf[j].total,
                cl[i].perf[j].reward_sum>>]>>]

\* json.load of a cluster-map document
LoadClusters(doc) ==
    [i \in DOMAIN doc |->
        [name |-> doc[i][1], queries |-> doc[i][2],
         perf |-> [j \in DOMAIN doc[i][3] |->
                      [strategy |-> doc[i][3][j][1], total |-> doc[i][3][j][2],
                       reward_sum |-> doc[i][3][j][3]]]]]

\* f"cluster_{n}"
DigitChar(n) ==
    CASE n = 0 -> "0"
      [] n = 1 -> "1"
      [] n = 2 -> "2"
      [] n = 3 -> "3"
      [] n = 4 -> "4"
      [] OTHER -> "5"

ClusterN(n) == <<"c", "l", "u", "s", "t", "e", "r", "_", DigitChar(n)>>

(* The clustering oracle answers with an exception ([ok |-> FALSE]) or     *)
(* with a text ([ok |-> TRUE, group |-> g]): g is None when no line starts *)
(* with 'GROUP:', else Some(the rest of the first such line).              *)
OracleFails == [ok |-> FALSE, group |-> None]
OracleSays(g) == [ok |-> TRUE, group |-> g]

\* the name the try block of assign_cluster settles on:
\* strip, cluster_<n> when nothing is left, lower, spaces to underscores
GroupName(cl, group) ==
    LET parsed == IF group = None THEN <<>> ELSE Strip(group[1])
        named == IF parsed = <<>> THEN ClusterN(Len(cl)) ELSE parsed
    IN  ReplaceSpaces(Lower(named))

\* the try block of assign_cluster, the oracle having answered:
\* <<clusters afterwards, group_name, is_new>>
AssignByOracle(cl, query, group) ==
    LET group_name == GroupName(cl, group)
        is_new == group_name \notin Names(cl)
        i == IndexOf(cl, group_name)
    IN  <<IF is_new THEN SetCluster(cl, group_name, query)
          ELSE IF \E k \in DOMAIN cl[i].queries : cl[i].queries[k] = query
               THEN cl
               ELSE AppendQuery(cl, group_name, query),
          group_name, is_new>>

\* set(text.lower().split())
WordSet(q) == {LowerChar(q[i]) : i \in DOMAIN q}

\* overlap = len(query_words & existing_words)
Overlap(q, p) == Cardinality(WordSet(q) \cap WordSet(p))

\* the scan with >= in place of >: the last cluster of maximum overlap wins
RECURSIVE FallbackScanLast(_, _, _, _, _, _)
FallbackScanLast(cl, query, i, j, best_match, best_score) ==
    IF i > Len(cl) THEN <<best_match, best_score>>
    ELSE IF j > Len(cl[i].queries)
         THEN FallbackScanLast(cl, query, i + 1, 1, best_match, best_score)
         ELSE LET overlap == Overlap(query, cl[i].queries[j])
              IN  IF overlap >= best_score
                  THEN FallbackScanLast(cl, query, i, j + 1, i, overlap)
                  ELSE FallbackScanLast(cl, query, i, j + 1, best_match,
                                        best_score)

\* the two nested loops of _fallback_cluster from cluster i, query j on:
\* <<best_match (0: None), best_score>>
RECURSIVE FallbackScan(_, _, _, _, _, _)
FallbackScan(cl, query, i, j, best_match, best_score) ==
    IF i > Len(cl) THEN <<best_match, best_score>>
    ELSE IF j > Len(cl[i].queries)
         THEN FallbackScan(cl, query, i + 1, 1, best_match, best_score)
         ELSE LET overlap == Overlap(query, cl[i].queries[j])
              IN  IF overlap > best_score
                  THEN FallbackScan(cl, query, i, j + 1, i, overlap)
                  ELSE FallbackScan(cl, query, i, j + 1, best_match, best_score)

\* _fallback_cluster: <<clusters afterwards, name, is_new>>
FallbackCluster(cl, query) ==
    LET best == FallbackScan(cl, query, 1, 1, 0, 0)
        new_group == ClusterN(Len(cl))
    IN  IF best[2] >= 2
        THEN <<AppendQuery(cl, cl[best[1]].name, query), cl[best[1]].name, FALSE>>
        ELSE <<SetCluster(cl, new_group, query), new_group, TRUE>>

\* assign_cluster: <<clusters afterwards, name, is_new>>
assign_cluster(cl, query, oracle) ==
    IF oracle.ok THEN AssignByOracle(cl, query, oracle.group)
    ELSE FallbackCluster(cl, query)

\* the position of strategy in perf, 0 when it is not a key
PerfIndex(perf, strategy) ==
    IF \E j \in DOMAIN perf : perf[j].strategy = strategy
    THEN CHOOSE j \in DOMAIN perf : perf[j].strategy = strategy
    ELSE 0

\* the accumulation of record_strategy_performance on one cluster's perf
UpdatePerf(perf, strategy, reward) ==
    LET seeded == IF PerfIndex(perf, strategy) = 0
                  THEN Append(perf, [strategy |-> strategy, total |-> 0,
                                     reward_sum |-> 0])
                  ELSE perf
        j == PerfIndex(seeded, strategy)
    IN  [seeded EXCEPT ![j] = [strategy |-> strategy, total |-> @.total + 1,
                               reward_sum |-> @.reward_sum + reward]]

\* record_strategy_performance: the clusters afterwards (unchanged when the
\* cluster is unknown, and then nothing is saved)
record_strategy_performance(cl, cluster_name, strategy, reward) ==
    IF cluster_name \notin Names(cl) THEN cl
    ELSE [cl EXCEPT ![IndexOf(cl, cluster_name)].perf =
              UpdatePerf(@, strategy, reward)]

\* the scan with >= in place of >: the last strategy of maximal average wins
RECURSIVE BestScanLast(_, _, _, _, _, _)
BestScanLast(perf, j, has_best, best_strategy, num, den) ==
    IF j > Len(perf) THEN <<has_best, best_strategy, num, den>>
    ELSE IF perf[j].total > 0
              /\ (~has_best \/ perf[j].reward_sum * den >= num * perf[j].total)
         THEN BestScanLast(perf, j + 1, TRUE, Some(perf[j].strategy),
                           perf[j].reward_sum, perf[j].total)
         ELSE BestScanLast(perf, j + 1, has_best, best_strategy, num, den)

\* get_best_strategy_for_cluster from position j of perf on, carrying
\* best_strategy (None at first) and best_avg_reward as the fraction num/den
\* (-inf at first: has_best FALSE)
RECURSIVE BestScan(_, _, _, _, _, _)
BestScan(perf, j, has_best, best_strategy, num, den) ==
    IF j > Len(perf) THEN <<has_best, best_strategy, num, den>>
    ELSE IF perf[j].total > 0
              /\ (~has_best \/ perf[j].reward_sum * den > num * perf[j].total)
         THEN BestScan(perf, j + 1, TRUE, Some(perf[j].strategy),
                       perf[j].reward_sum, perf[j].total)
         ELSE BestScan(perf, j + 1, has_best, best_strategy, num, den)

\* get_best_strategy_for_cluster: None or Some(strategy)
get_best_strategy_for_cluster(cl, cluster_name) ==
    IF cluster_name \notin Names(cl) THEN None
    ELSE LET perf == cl[IndexOf(cl, cluster_name)].perf
             best == BestScan(perf, 1, FALSE, None, 0, 1)
         IN  IF perf = <<>> THEN None
             ELSE IF best[1] /\ best[3] > 0 THEN best[2] ELSE None


----------------------------------------------------------------------------
(* Inputs the operations are called with *)

Q1 == <<"p", "c">>
Q2 == <<"P", "c", "w">>
Q3 == <<"c", "s">>

Queries == {Q1, Q2, Q3}

\* what the clustering oracle may put after 'GROUP:'
RawCluster1 == <<"C", "l", "u", "s", "t", "e", "r", " ", "1">>
RawBlank == <<" ">>

ClusterAnswers ==
    {OracleFails, OracleSays(None), OracleSays(Some(RawBlank)),
     OracleSays(Some(RawCluster1))}

Feedbacks == {1, -1}

\* a strategy name outside self.strategies
Bogus == "bogus"

----------------------------------------------------------------------------
(* The operations of the two components *)

Done(op, args, ret, err) == [op |-> op, args |-> args, ret |-> ret, err |-> err]

\* per strategy: the submit_feedback calls made for it (all) and those made
\* with the name of an existing cluster (known)
NoEvents == [s \in StrategySet |-> [all |-> 0, known |-> 0]]

\* pending_feedback = {}
NoPending == [i \in {} |-> <<>>]

\* initialize_session: no message, no document, nothing pending
InitSession ==
    session_state = [chat_history |-> <<>>, document_indexed |-> FALSE,
                     pending_feedback |-> NoPending]

\* no second instance, and no file of another user
NoPeer ==
    [alive |-> FALSE, user_id |-> "", strategy_stats |-> DefaultStats,
     feedback_history |-> <<>>, clusters |-> <<>>]

NoFiles ==
    [strategy_file |-> Absent, feedback_file |-> Absent,
     clusters_file |-> Absent]

InitPeer == peer = NoPeer /\ peer_files = NoFiles

Init ==
    /\ strategy_stats = DefaultStats
    /\ feedback_history = <<>>
    /\ clusters = <<>>
    /\ strategy_file = Absent
    /\ feedback_file = Absent
    /\ clusters_file = Absent
    /\ alive = TRUE
    /\ saved = {}
    /\ events = NoEvents
    /\ last = Done("init", <<>>, <<>>, FALSE)
    /\ InitSession
    /\ InitPeer

\* record_feedback with the entry inserted at the front of the history
record_feedback_prepend(stats, history, query, strategy, feedback, cluster_name) ==
    LET prepended == <<FeedbackEntry(query, strategy, feedback, cluster_name)>>
                         \o history
    IN  IF strategy \notin DOMAIN stats
        THEN [history |-> prepended, stats |-> stats, err |-> TRUE]
        ELSE [history |-> prepended,
              stats |-> UpdateStats(stats, strategy, Reward(feedback)),
              err |-> FALSE]

\* record_feedback up to its two saves: the history and stats afterwards;
\* err when self.strategy_stats[strategy] raises KeyError, after the append
record_feedback(stats, history, query, strategy, feedback, cluster_name) ==
    LET appended == Append(history,
                           FeedbackEntry(query, strategy, feedback, cluster_name))
    IN  IF strategy \notin DOMAIN stats
        THEN [history |-> appended, stats |-> stats, err |-> TRUE]
        ELSE [history |-> appended,
              stats |-> UpdateStats(stats, strategy, Reward(feedback)),
              err |-> FALSE]

\* ReinforcementLearner.record_feedback, whatever the length of the history
RecordFeedbackStep(query, strategy, feedback, cluster_name) ==
    /\ alive
    /\ LET r == record_feedback(strategy_stats, feedback_history, query,
                                strategy, feedback, cluster_name)
       IN  /\ feedback_history' = r.history
           /\ strategy_stats' = r.stats
           /\ feedback_file' = IF r.err THEN feedback_file
                               ELSE Json(DumpHistory(r.history))
           /\ strategy_file' = IF r.err THEN strategy_file
                               ELSE Json(DumpStats(r.stats))
           /\ saved' = IF r.err THEN saved ELSE saved \cup {"feedback", "strategy"}
           /\ last' = Done("record_feedback", <<strategy, feedback>>, <<>>, r.err)
    /\ UNCHANGED <<clusters, clusters_file, alive, events>>
    /\ UNCHANGED others

\* ReinforcementLearner.record_feedback
RecordFeedback(query, strategy, feedback, cluster_name) ==
    /\ Len(feedback_history) < MaxHistory
    /\ RecordFeedbackStep(query, strategy, feedback, cluster_name)

\* ReinforcementLearner.record_feedback on the strategy the select_strategy
\* call just before returned, as AdaptiveRAG.submit_feedback is called with
\* the strategy of the response
FeedbackOnSelected(feedback) ==
    /\ last.op = "select_strategy"
    /\ Len(feedback_history) < MaxRounds
    /\ RecordFeedbackStep(Q1, last.ret[1], feedback, None)

\* select_strategy counting the selection as a use of the strategy
SelectStrategyCounting(cluster_best_strategy, bias_draw, explore_draw, choice) ==
    /\ alive
    /\ LET sel == select_strategy(strategy_stats, cluster_best_strategy,
                                  bias_draw, explore_draw, choice)
       IN  /\ last' = Done("select_strategy",
                           <<cluster_best_strategy, bias_draw, explore_draw,
                             choice>>, sel, FALSE)
           /\ strategy_stats' =
                  [strategy_stats EXCEPT ![sel[1]].total = @ + 1]
    /\ UNCHANGED <<feedback_history, clusters, strategy_file,
                   feedback_file, clusters_file, alive, saved, events>>
    /\ UNCHANGED others

\* ReinforcementLearner.select_strategy
SelectStrategy(cluster_best_strategy, bias_draw, explore_draw, choice) ==
    /\ alive
    /\ last' = Done("select_strategy",
                    <<cluster_best_strategy, bias_draw, explore_draw, choice>>,
                    select_strategy(strategy_stats, cluster_best_strategy,
                                    bias_draw, explore_draw, choice), FALSE)
    /\ UNCHANGED <<strategy_stats, feedback_history, clusters, strategy_file,
                   feedback_file, clusters_file, alive, saved, events>>
    /\ UNCHANGED others

\* ReinforcementLearner.select_strategy with the query text and the
\* complexity of the query among its arguments
SelectStrategyFor(query, query_complexity, cluster_best_strategy, bias_draw, explore_draw, choice) ==
    /\ alive
    /\ last' = Done("select_strategy",
                    <<query, query_complexity, cluster_best_strategy,
                      bias_draw, explore_draw, choice>>,
                    select_strategy_call(strategy_stats, query,
                                         query_complexity,
                                         cluster_best_strategy, bias_draw,
                                         explore_draw, choice), FALSE)
    /\ UNCHANGED <<strategy_stats, feedback_history, clusters, strategy_file,
                   feedback_file, clusters_file, alive, saved, events>>
    /\ UNCHANGED others

\* ReinforcementLearner.get_performance_metrics
GetPerformanceMetrics ==
    /\ alive
    /\ last' = Done("get_performance_metrics", <<>>,
                    get_performance_metrics(strategy_stats, feedback_history),
                    FALSE)
    /\ UNCHANGED <<strategy_stats, feedback_history, clusters, strategy_file,
                   feedback_file, clusters_file, alive, saved, events>>
    /\ UNCHANGED others

\* ReinforcementLearner.get_query_improvement
GetQueryImprovement(current_query) ==
    /\ alive
    /\ last' = Done("get_query_improvement", <<current_query>>,
                    get_query_improvement(feedback_history, current_query),
                    FALSE)
    /\ UNCHANGED <<strategy_stats, feedback_history, clusters, strategy_file,
                   feedback_file, clusters_file, alive, saved, events>>
    /\ UNCHANGED others

\* the bounds on the cluster map
WithinClusterBounds(cl) ==
    /\ SumSeq([i \in DOMAIN cl |-> Len(cl[i].queries)]) <= MaxQueries
    /\ SumSeq([i \in DOMAIN cl |->
                  SumSeq([j \in DOMAIN cl[i].perf |-> cl[i].perf[j].total])])
           <= MaxPerf

\* QueryClusterer.assign_cluster (every path of it saves the clusters)
AssignCluster(query, oracle) ==
    /\ alive
    /\ LET r == assign_cluster(clusters, query, oracle)
       IN  /\ WithinClusterBounds(r[1])
           /\ clusters' = r[1]
           /\ clusters_file' = Json(DumpClusters(r[1]))
           /\ last' = Done("assign_cluster", <<query, oracle.ok>>,
                           <<r[2], r[3]>>, FALSE)
    /\ saved' = saved \cup {"clusters"}
    /\ UNCHANGED <<strategy_stats, feedback_history, strategy_file,
                   feedback_file, alive, events>>
    /\ UNCHANGED others

\* QueryClusterer.record_strategy_performance
RecordStrategyPerformance(cluster_name, strategy, reward) ==
    /\ alive
    /\ LET cl == record_strategy_performance(clusters, cluster_name, strategy,
                                             reward)
       IN  /\ WithinClusterBounds(cl)
           /\ clusters' = cl
           /\ clusters_file' = IF cluster_name \in Names(clusters)
                               THEN Json(DumpClusters(cl))
                               ELSE clusters_file
           /\ saved' = IF cluster_name \in Names(clusters)
                       THEN saved \cup {"clusters"}
                       ELSE saved
           /\ last' = Done("record_strategy_performance",
                           <<cluster_name, strategy, reward>>, <<>>, FALSE)
    /\ UNCHANGED <<strategy_stats, feedback_history, strategy_file,
                   feedback_file, alive, events>>
    /\ UNCHANGED others

\* QueryClusterer.get_best_strategy_for_cluster
GetBestStrategyForCluster(cluster_name) ==
    /\ alive
    /\ last' = Done("get_best_strategy_for_cluster", <<cluster_name>>,
                    get_best_strategy_for_cluster(clusters, cluster_name), FALSE)
    /\ UNCHANGED <<strategy_stats, feedback_history, clusters, strategy_file,
                   feedback_file, clusters_file, alive, saved, events>>
    /\ UNCHANGED others

\* a load that answers a malformed file with the default
LoadFileLenient(file, default, decoded) ==
    IF file.kind = "json"
    THEN [value |-> decoded, raised |-> FALSE, defaulted |-> FALSE]
    ELSE [value |-> default, raised |-> FALSE, defaulted |-> TRUE]

\* _load_strategy_stats, _load_feedback_history, _load_clusters: the default
\* when the file does not exist, else json.load of it, which raises on a
\* file that holds no complete document.  decoded is json.load of the file
\* when it holds one.
\* [value, raised, defaulted (the default was returned)]
LoadFile(file, default, decoded) ==
    IF file.kind = "absent"
    THEN [value |-> default, raised |-> FALSE, defaulted |-> TRUE]
    ELSE IF file.kind = "json"
         THEN [value |-> decoded, raised |-> FALSE, defaulted |-> FALSE]
         ELSE [value |-> default, raised |-> TRUE, defaulted |-> FALSE]

\* AdaptiveRAG.__init__ for the same user: a new ReinforcementLearner loads
\* the stats, then the history, and a new QueryClusterer loads the clusters;
\* the first load that raises ends the construction and leaves no instance.
\* ret: the files whose load returned the default
ConstructStep ==
    LET st == LoadFile(strategy_file, DefaultStats, LoadStats(strategy_file.doc))
        fb == LoadFile(feedback_file, <<>>, LoadHistory(feedback_file.doc))
        cl == LoadFile(clusters_file, <<>>, LoadClusters(clusters_file.doc))
        raised == st.raised \/ fb.raised \/ cl.raised
    IN  /\ alive' = ~raised
        /\ strategy_stats' = IF raised THEN DefaultStats ELSE st.value
        /\ feedback_history' = IF raised THEN <<>> ELSE fb.value
        /\ clusters' = IF raised THEN <<>> ELSE cl.value
        /\ last' = Done("construct", <<>>,
                        {f \in {"strategy"} : st.defaulted}
                        \cup {f \in {"feedback"} : fb.defaulted /\ ~st.raised}
                        \cup {f \in {"clusters"} :
                                 cl.defaulted /\ ~st.raised /\ ~fb.raised},
                        raised)
        /\ UNCHANGED <<strategy_file, feedback_file, clusters_file, saved,
                       events>>

\* AdaptiveRAG.__init__ called outside a chat page
Construct ==
    /\ ConstructStep
    /\ UNCHANGED others

----------------------------------------------------------------------------
(* The orchestrator *)

(* The complexity oracle answers with an exception or with a text, of      *)
(* which only the words "complex" and "simple" it contains matter.         *)
ComplexityFails == [ok |-> FALSE, words |-> {}]
ComplexitySays(w) == [ok |-> TRUE, words |-> w]

\* analyze_query_complexity
analyze_query_complexity(answer) ==
    IF ~answer.ok THEN "moderate"
    ELSE IF "complex" \in answer.words THEN "complex"
    ELSE IF "simple" \in answer.words THEN "simple"
    ELSE "moderate"

\* AdaptiveRAG.query.  oracle, complexity: the answers of the text oracle in
\* its clustering and complexity modes; draws: the random draws of
\* select_strategy; retrieved: "docs", "empty" or "error" from
\* vector_store.search; generated: whether self.llm.invoke returns an answer.
\* The except clause logs and re-raises.
QueryStep(user_query, oracle, complexity, draws, retrieved, generated) ==
    /\ alive
    /\ LET a == assign_cluster(clusters, user_query, oracle)
           query_complexity == analyze_query_complexity(complexity)
           cluster_best_strategy == get_best_strategy_for_cluster(a[1], a[2])
           sel == select_strategy_call(strategy_stats, user_query,
                                       query_complexity, cluster_best_strategy,
                                       draws.bias, draws.explore, draws.choice)
           raised == retrieved = "error" \/ (retrieved = "docs" /\ ~generated)
       IN  /\ WithinClusterBounds(a[1])
           /\ clusters' = a[1]
           /\ clusters_file' = Json(DumpClusters(a[1]))
           /\ last' = Done("query",
                           <<user_query, oracle.ok, complexity.ok, retrieved,
                             generated>>,
                           IF raised THEN <<>>
                           ELSE <<IF retrieved = "empty" THEN "no_docs"
                                  ELSE "answer",
                                  sel[1], sel[2], query_complexity, a[2], a[3]>>,
                           raised)
    /\ saved' = saved \cup {"clusters"}
    /\ UNCHANGED <<strategy_stats, feedback_history, strategy_file,
                   feedback_file, alive, events>>

\* AdaptiveRAG.query called outside a chat page
Query(user_query, oracle, complexity, draws, retrieved, generated) ==
    /\ QueryStep(user_query, oracle, complexity, draws, retrieved, generated)
    /\ UNCHANGED others

\* AdaptiveRAG.submit_feedback: record_feedback, then, if cluster_name is
\* truthy, record_strategy_performance; a KeyError of record_feedback ends
\* the call before the clusterer is reached
SubmitFeedbackStep(query, strategy, feedback, cluster_name) ==
    /\ alive
    /\ Len(feedback_history) < MaxHistory
    /\ LET reward == Reward(feedback)
           r == record_feedback(strategy_stats, feedback_history, query,
                                strategy, feedback, cluster_name)
           known == Truthy(cluster_name) /\ cluster_name[1] \in Names(clusters)
           cl == IF ~r.err /\ Truthy(cluster_name)
                 THEN record_strategy_performance(clusters, cluster_name[1],
                                                  strategy, reward)
                 ELSE clusters
       IN  /\ WithinClusterBounds(cl)
           /\ feedback_history' = r.history
           /\ strategy_stats' = r.stats
           /\ feedback_file' = IF r.err THEN feedback_file
                               ELSE Json(DumpHistory(r.history))
           /\ strategy_file' = IF r.err THEN strategy_file
                               ELSE Json(DumpStats(r.stats))
           /\ clusters' = cl
           /\ clusters_file' = IF ~r.err /\ known THEN Json(DumpClusters(cl))
                               ELSE clusters_file
           /\ saved' = saved
                       \cup (IF r.err THEN {} ELSE {"feedback", "strategy"})
                       \cup (IF ~r.err /\ known THEN {"clusters"} ELSE {})
           /\ events' = IF strategy \in StrategySet
                        THEN [events EXCEPT
                                 ![strategy].all = @ + 1,
                                 ![strategy].known = IF known THEN @ + 1 ELSE @]
                        ELSE events
           /\ last' = Done("submit_feedback", <<strategy, feedback, cluster_name>>,
                           <<>>, r.err)
    /\ UNCHANGED alive

\* AdaptiveRAG.submit_feedback called outside a chat page
SubmitFeedback(query, strategy, feedback, cluster_name) ==
    /\ SubmitFeedbackStep(query, strategy, feedback, cluster_name)
    /\ UNCHANGED others

\* what a new instance would load from the three files
Persisted ==
    [stats |-> LoadFile(strategy_file, DefaultStats, LoadStats(strategy_file.doc)).value,
     history |-> LoadFile(feedback_file, <<>>, LoadHistory(feedback_file.doc)).value,
     clusters |-> LoadFile(clusters_file, <<>>, LoadClusters(clusters_file.doc)).value]

\* a file after a save that raised: open(file, 'w') raised and the file is
\* as it was ("open"), or json.dump raised after the open had truncated it
FailedSave(file, how) ==
    IF how = "open" THEN file
    ELSE IF how = "truncated" THEN Truncated ELSE Partial

\* AdaptiveRAG.submit_feedback when a save raises OSError and the process
\* goes on: in _save_feedback_history ("feedback"), in _save_strategy_stats
\* ("strategy") or in the _save_clusters of record_strategy_performance
\* ("clusters").  The statements before the save have updated the memory;
\* the statements after it are not executed.
SubmitFeedbackSaveFailsStep(query, strategy, feedback, cluster_name, at, how) ==
    /\ alive
    /\ Len(feedback_history) < MaxHistory
    /\ LET reward == Reward(feedback)
           r == record_feedback(strategy_stats, feedback_history, query,
                                strategy, feedback, cluster_name)
           known == Truthy(cluster_name) /\ cluster_name[1] \in Names(clusters)
           cl == IF at = "clusters"
                 THEN record_strategy_performance(clusters, cluster_name[1],
                                                  strategy, reward)
                 ELSE clusters
       IN  /\ ~r.err
           /\ at = "clusters" => known
           /\ WithinClusterBounds(cl)
           /\ feedback_history' = r.history
           /\ strategy_stats' = r.stats
           /\ feedback_file' = IF at = "feedback"
                               THEN FailedSave(feedback_file, how)
                               ELSE Json(DumpHistory(r.history))
           /\ strategy_file' = IF at = "feedback" THEN strategy_file
                               ELSE IF at = "strategy"
                                    THEN FailedSave(strategy_file, how)
                                    ELSE Json(DumpStats(r.stats))
           /\ clusters' = cl
           /\ clusters_file' = IF at = "clusters"
                               THEN FailedSave(clusters_file, how)
                               ELSE clusters_file
           /\ saved' = saved
                       \cup (IF at = "feedback" THEN {} ELSE {"feedback"})
                       \cup (IF at = "clusters" THEN {"strategy"} ELSE {})
                       \cup (IF how = "open" THEN {} ELSE {at})
           /\ events' = [events EXCEPT
                            ![strategy].all = @ + 1,
                            ![strategy].known = IF at = "clusters"
                                                THEN @ + 1 ELSE @]
           /\ last' = Done("submit_feedback", <<strategy, feedback, cluster_name>>,
                           <<>>, TRUE)
    /\ UNCHANGED alive

\* AdaptiveRAG.submit_feedback with a save that raises, called outside a
\* chat page
SubmitFeedbackSaveFails(query, strategy, feedback, cluster_name, at, how) ==
    /\ SubmitFeedbackSaveFailsStep(query, strategy, feedback, cluster_name, at, how)
    /\ UNCHANGED others

----------------------------------------------------------------------------
(* The chat page.  Message index i is position i + 1 of chat_history.  A   *)
(* message carries one field the page does not have: recorded, the number  *)
(* of feedback events the bandit has recorded for it.                      *)

\* pending_feedback[message_idx] = data
SetPending(pending, message_idx, data) ==
    [i \in DOMAIN pending \cup {message_idx} |->
        IF i = message_idx THEN data ELSE pending[i]]

\* del pending_feedback[message_idx]
DelPending(pending, message_idx) ==
    [i \in DOMAIN pending \ {message_idx} |-> pending[i]]

\* "Index Document": the instance is constructed if the session has none,
\* then index_document runs; indexed is whether it returns
IndexDocument(indexed) ==
    /\ IF alive
       THEN /\ last' = Done("index_document", <<>>, <<>>, ~indexed)
            /\ UNCHANGED <<strategy_stats, feedback_history, clusters,
                           strategy_file, feedback_file, clusters_file, alive,
                           saved, events>>
       ELSE ConstructStep
    /\ session_state' =
           [session_state EXCEPT
               !.document_indexed = @ \/ (alive' /\ indexed)]
    /\ UNCHANGED <<peer, peer_files>>

\* a question typed in the chat input: query, then the message is appended
\* and its data are put in pending_feedback under the message's index; a
\* query that raises ends the run before both
Chat(user_query, oracle, complexity, draws, retrieved, generated) ==
    /\ session_state.document_indexed
    /\ Len(session_state.chat_history) < MaxMessages
    /\ QueryStep(user_query, oracle, complexity, draws, retrieved, generated)
    /\ LET message_idx == Len(session_state.chat_history)
           strategy == last'.ret[2]
           cluster_name == Some(last'.ret[5])
       IN  session_state' =
               IF last'.err THEN session_state
               ELSE [session_state EXCEPT
                        !.chat_history =
                            Append(@, [query |-> user_query,
                                       strategy |-> strategy,
                                       cluster_name |-> cluster_name,
                                       feedback |-> None,
                                       recorded |-> 0]),
                        !.pending_feedback =
                            SetPending(@, message_idx,
                                       [query |-> user_query,
                                        strategy |-> strategy,
                                        cluster_name |-> cluster_name])]
    /\ UNCHANGED <<peer, peer_files>>

\* the thumbs are drawn under the messages that have no 'feedback' yet
ButtonShown(message_idx) ==
    /\ alive
    /\ session_state.document_indexed
    /\ message_idx < Len(session_state.chat_history)
    /\ session_state.chat_history[message_idx + 1].feedback = None

\* handle_feedback: a click on a thumb of message message_idx
HandleFeedback(message_idx, feedback_type) ==
    /\ ButtonShown(message_idx)
    /\ IF message_idx \in DOMAIN session_state.pending_feedback
       THEN LET msg_data == session_state.pending_feedback[message_idx]
                feedback_value == IF feedback_type = "up" THEN 1 ELSE -1
            IN  /\ SubmitFeedbackStep(msg_data.query, msg_data.strategy,
                                      feedback_value, msg_data.cluster_name)
                /\ session_state' =
                       [session_state EXCEPT
                           !.chat_history[message_idx + 1].feedback =
                               Some(feedback_type),
                           !.chat_history[message_idx + 1].recorded = @ + 1,
                           !.pending_feedback = DelPending(@, message_idx)]
       ELSE /\ last' = Done("handle_feedback", <<message_idx, feedback_type>>,
                            <<>>, FALSE)
            /\ UNCHANGED <<strategy_stats, feedback_history, clusters,
                           strategy_file, feedback_file, clusters_file, alive,
                           saved, events, session_state>>
    /\ UNCHANGED <<peer, peer_files>>

\* handle_feedback when a save of submit_feedback raises: the statements
\* after the call, which mark the message and delete the pending entry,
\* are not executed
HandleFeedbackSaveFails(message_idx, feedback_type, at, how) ==
    /\ ButtonShown(message_idx)
    /\ message_idx \in DOMAIN session_state.pending_feedback
    /\ LET msg_data == session_state.pending_feedback[message_idx]
           feedback_value == IF feedback_type = "up" THEN 1 ELSE -1
       IN  SubmitFeedbackSaveFailsStep(msg_data.query, msg_data.strategy,
                                       feedback_value, msg_data.cluster_name,
                                       at, how)
    /\ session_state' =
           [session_state EXCEPT
               !.chat_history[message_idx + 1].recorded = @ + 1]
    /\ UNCHANGED <<peer, peer_files>>

\* "Clear Documents": clear_documents empties the vector store; the page
\* forgets the document and the messages
ClearDocuments ==
    /\ alive
    /\ session_state.document_indexed
    /\ session_state' =
           [session_state EXCEPT !.document_indexed = FALSE,
                                 !.chat_history = <<>>]
    /\ last' = Done("clear_documents", <<>>, <<>>, FALSE)
    /\ UNCHANGED <<strategy_stats, feedback_history, clusters, strategy_file,
                   feedback_file, clusters_file, alive, saved, events>>
    /\ UNCHANGED <<peer, peer_files>>

----------------------------------------------------------------------------
(* A second instance of the core: of another user, or of the same user in  *)
(* another session.  The first instance is that of FirstUser.              *)

FirstUser == "A"
OtherUser == "B"

\* the store the paths built from a user id designate with every user's
\* paths being those of the first user
StoreShared(user_id) == FirstUser

\* the store designated by f"{data_dir}/strategy_{user_id}.json",
\* f"{data_dir}/feedback_{user_id}.json" and
\* f"{data_dir}/query_clusters_{user_id}.json": one per user id
StoreOf(user_id) == user_id

\* the three files of a user's store
FilesOf(user_id) ==
    IF StoreOf(user_id) = FirstUser
    THEN [strategy_file |-> strategy_file, feedback_file |-> feedback_file,
          clusters_file |-> clusters_file]
    ELSE peer_files

\* the files of a user's store become f
WriteStore(user_id, f) ==
    IF StoreOf(user_id) = FirstUser
    THEN /\ strategy_file' = f.strategy_file
         /\ feedback_file' = f.feedback_file
         /\ clusters_file' = f.clusters_file
         /\ UNCHANGED peer_files
    ELSE /\ peer_files' = f
         /\ UNCHANGED <<strategy_file, feedback_file, clusters_file>>

\* AdaptiveRAG.__init__ of the second instance, for user_id
PeerConstruct(user_id) ==
    LET f == FilesOf(user_id)
        st == LoadFile(f.strategy_file, DefaultStats,
                       LoadStats(f.strategy_file.doc))
        fb == LoadFile(f.feedback_file, <<>>, LoadHistory(f.feedback_file.doc))
        cl == LoadFile(f.clusters_file, <<>>, LoadClusters(f.clusters_file.doc))
        raised == st.raised \/ fb.raised \/ cl.raised
    IN  /\ peer' = IF raised THEN NoPeer
                   ELSE [alive |-> TRUE, user_id |-> user_id,
                         strategy_stats |-> st.value,
                         feedback_history |-> fb.value,
                         clusters |-> cl.value]
        /\ last' = Done("peer.construct", <<user_id>>, <<>>, raised)
        /\ UNCHANGED <<strategy_stats, feedback_history, clusters,
                       strategy_file, feedback_file, clusters_file, alive,
                       saved, events, session_state, peer_files>>

\* AdaptiveRAG.query of the second instance: of its effects, the one on the
\* state is assign_cluster and its save
PeerQuery(user_query, oracle) ==
    /\ peer.alive
    /\ LET a == assign_cluster(peer.clusters, user_query, oracle)
       IN  /\ WithinClusterBounds(a[1])
           /\ peer' = [peer EXCEPT !.clusters = a[1]]
           /\ WriteStore(peer.user_id,
                         [FilesOf(peer.user_id) EXCEPT
                             !.clusters_file = Json(DumpClusters(a[1]))])
           /\ last' = Done("peer.query", <<user_query, oracle.ok>>,
                           <<a[2], a[3]>>, FALSE)
    /\ saved' = IF StoreOf(peer.user_id) = FirstUser
                THEN saved \cup {"clusters"} ELSE saved
    /\ UNCHANGED <<strategy_stats, feedback_history, clusters, alive, events,
                   session_state>>

\* AdaptiveRAG.submit_feedback of the second instance
PeerSubmitFeedback(query, strategy, feedback, cluster_name) ==
    /\ peer.alive
    /\ Len(peer.feedback_history) < MaxHistory
    /\ LET f == FilesOf(peer.user_id)
           own == StoreOf(peer.user_id) = FirstUser
           r == record_feedback(peer.strategy_stats, peer.feedback_history,
                                query, strategy, feedback, cluster_name)
           known == /\ Truthy(cluster_name)
                    /\ cluster_name[1] \in Names(peer.clusters)
           cl == IF ~r.err /\ Truthy(cluster_name)
                 THEN record_strategy_performance(peer.clusters,
                                                  cluster_name[1], strategy,
                                                  Reward(feedback))
                 ELSE peer.clusters
       IN  /\ WithinClusterBounds(cl)
           /\ peer' = [peer EXCEPT !.feedback_history = r.history,
                                   !.strategy_stats = r.stats,
                                   !.clusters = cl]
           /\ WriteStore(peer.user_id,
                         [feedback_file |-> IF r.err THEN f.feedback_file
                                            ELSE Json(DumpHistory(r.history)),
                          strategy_file |-> IF r.err THEN f.strategy_file
                                            ELSE Json(DumpStats(r.stats)),
                          clusters_file |-> IF ~r.err /\ known
                                            THEN Json(DumpClusters(cl))
                                            ELSE f.clusters_file])
           /\ saved' = IF own
                       THEN saved
                            \cup (IF r.err THEN {}
                                  ELSE {"feedback", "strategy"})
                            \cup (IF ~r.err /\ known THEN {"clusters"}
                                  ELSE {})
                       ELSE saved
           /\ events' = IF own /\ strategy \in StrategySet
                        THEN [events EXCEPT
                                 ![strategy].all = @ + 1,
                                 ![strategy].known = IF known THEN @ + 1 ELSE @]
                        ELSE events
           /\ last' = Done("peer.submit_feedback",
                           <<strategy, feedback, cluster_name>>, <<>>, r.err)
    /\ UNCHANGED <<strategy_stats, feedback_history, clusters, alive,
                   session_state>>

----------------------------------------------------------------------------
(* The process stopping in the middle of an operation *)

\* the instance is gone with the process
Die(op) ==
    /\ alive' = FALSE
    /\ strategy_stats' = DefaultStats
    /\ feedback_history' = <<>>
    /\ clusters' = <<>>
    /\ last' = Done(op, <<>>, <<>>, TRUE)
    /\ UNCHANGED events
    /\ UNCHANGED others

(* A save is open(file, 'w'), which truncates the file, then json.dump,    *)
(* which writes the document piece by piece, then the close.  A process    *)
(* that stops inside it leaves the file empty or holding a proper prefix.  *)
Leftovers == {Truncated, Partial}

\* record_feedback stopped inside _save_feedback_history ("feedback"),
\* inside _save_strategy_stats ("strategy") or between the two ("between")
RecordFeedbackCrash(query, strategy, feedback, cluster_name, at, left) ==
    /\ alive
    /\ Len(feedback_history) < MaxHistory
    /\ LET r == record_feedback(strategy_stats, feedback_history, query,
                                strategy, feedback, cluster_name)
       IN  /\ ~r.err
           /\ feedback_file' = IF at = "feedback" THEN left
                               ELSE Json(DumpHistory(r.history))
           /\ strategy_file' = IF at = "strategy" THEN left ELSE strategy_file
           /\ saved' = saved \cup {"feedback"}
                       \cup (IF at = "strategy" THEN {"strategy"} ELSE {})
    /\ Die("record_feedback")
    /\ UNCHANGED clusters_file

\* assign_cluster stopped inside _save_clusters
AssignClusterCrash(left) ==
    /\ alive
    /\ clusters_file' = left
    /\ saved' = saved \cup {"clusters"}
    /\ Die("assign_cluster")
    /\ UNCHANGED <<strategy_file, feedback_file>>

----------------------------------------------------------------------------
(* Spec: one user's bandit and clusterer, called in any order *)

Next ==
    \/ \E s \in {"concise", "analytical", Bogus}, f \in Feedbacks :
          RecordFeedback(Q1, s, f, None)
    \/ \E b \in {None, Some("concise")}, explore \in BOOLEAN :
          SelectStrategy(b, TRUE, explore, "detailed")
    \/ \E o \in {OracleFails, OracleSays(Some(RawCluster1))} :
          AssignCluster(Q1, o)
    \/ \E c \in {ClusterN(0), ClusterN(1)} :
          RecordStrategyPerformance(c, "concise", 1)
    \/ Construct

Spec == Init /\ [][Next]_vars

----------------------------------------------------------------------------
(* SpecCluster: the clusterer alone, with every query and oracle answer *)

NextCluster ==
    \/ \E q \in Queries, o \in ClusterAnswers :
          AssignCluster(q, o)
    \/ \E c \in {ClusterN(0), ClusterN(1)}, r \in {1, -1} :
          RecordStrategyPerformance(c, "concise", r)

SpecCluster == Init /\ [][NextCluster]_vars

----------------------------------------------------------------------------
(* SpecQuery: AdaptiveRAG.query with the oracle failing in any mode *)

Draws ==
    {[bias |-> TRUE, explore |-> FALSE, choice |-> "concise"],
     [bias |-> FALSE, explore |-> TRUE, choice |-> "detailed"]}

NextQuery ==
    \E q \in {Q1, Q3}, o \in {OracleFails, OracleSays(Some(RawCluster1))},
       c \in {ComplexityFails, ComplexitySays({"complex", "simple"})},
       d \in Draws, retrieved \in {"docs", "empty", "error"},
       generated \in BOOLEAN :
       Query(q, o, c, d, retrieved, generated)

SpecQuery == Init /\ [][NextQuery]_vars

----------------------------------------------------------------------------
(* SpecRAG: queries and feedback submissions of one user, interleaved *)

FeedbackArgs ==
    {<<"concise", 1, None>>, <<"concise", -1, Some(ClusterN(1))>>,
     <<"detailed", 1, Some(ClusterN(1))>>, <<Bogus, 1, Some(ClusterN(1))>>}

NextRAG ==
    \/ \E q \in {Q1, Q3}, o \in {OracleFails, OracleSays(Some(RawCluster1))} :
          Query(q, o, ComplexitySays({"simple"}),
                [bias |-> TRUE, explore |-> FALSE, choice |-> "concise"],
                "docs", TRUE)
    \/ \E a \in FeedbackArgs :
          SubmitFeedback(Q1, a[1], a[2], a[3])

SpecRAG == Init /\ [][NextRAG]_vars

----------------------------------------------------------------------------
(* SpecCrash: the process may stop inside a save; a new instance is then   *)
(* constructed from the files                                              *)

NextCrash ==
    \/ \E s \in {"concise", Bogus}, f \in Feedbacks :
          RecordFeedback(Q1, s, f, None)
    \/ \E o \in {OracleFails, OracleSays(Some(RawCluster1))} :
          AssignCluster(Q1, o)
    \/ \E f \in Feedbacks, at \in {"feedback", "between", "strategy"},
          left \in Leftovers :
          RecordFeedbackCrash(Q1, "concise", f, None, at, left)
    \/ \E left \in Leftovers :
          AssignClusterCrash(left)
    \/ Construct

SpecCrash == Init /\ [][NextCrash]_vars

----------------------------------------------------------------------------
(* SpecSelect: select_strategy asked of a returning user, whose feedback   *)
(* history was recorded by earlier record_feedback calls                   *)

\* n entries that record_feedback appended for one strategy and feedback
Entries(strategy, feedback, n) ==
    [i \in 1..n |-> FeedbackEntry(Q1, strategy, feedback, None)]

\* wl[1] positive feedbacks on a strategy, then wl[2] negative ones
Block(strategy, wl) == Entries(strategy, 1, wl[1]) \o Entries(strategy, -1, wl[2])

\* the stats after the record_feedback calls that recorded history h
RECURSIVE Replay(_)
Replay(h) ==
    IF h = <<>> THEN DefaultStats
    ELSE UpdateStats(Replay(SubSeq(h, 1, Len(h) - 1)), h[Len(h)].strategy,
                     h[Len(h)].reward)

\* the state a new instance is constructed in when the record_feedback
\* calls of earlier sessions recorded history h
InitFrom(h) ==
    /\ strategy_stats = Replay(h)
    /\ feedback_history = h
    /\ clusters = <<>>
    /\ strategy_file = IF h = <<>> THEN Absent ELSE Json(DumpStats(Replay(h)))
    /\ feedback_file = IF h = <<>> THEN Absent ELSE Json(DumpHistory(h))
    /\ clusters_file = Absent
    /\ alive = TRUE
    /\ saved = IF h = <<>> THEN {} ELSE {"feedback", "strategy"}
    /\ events = NoEvents
    /\ last = Done("init", <<>>, <<>>, FALSE)
    /\ InitSession
    /\ InitPeer

\* <<positive, negative>> feedbacks on concise: averages above, at and below
\* 0.3 with fewer than 3, exactly 3 and more than 3 uses (13 - 7 of 20 is 0.3)
ConciseRecords ==
    {<<0, 0>>, <<1, 0>>, <<2, 0>>, <<2, 1>>, <<1, 2>>, <<3, 0>>, <<13, 7>>}

DetailedRecords == {<<0, 0>>, <<2, 1>>, <<3, 1>>, <<13, 7>>}

OtherRecords == {<<0, 0>>, <<1, 0>>}

SelectHistories ==
    {Block("concise", c) \o Block("detailed", d) \o Block("structured", o)
        \o Block("example_driven", o) \o Block("analytical", o) :
        c \in ConciseRecords, d \in DetailedRecords, o \in OtherRecords}

InitSelect == \E h \in SelectHistories : InitFrom(h)

\* cluster_best_strategy: None, the empty string, strategies, a stranger
BestInputs ==
    {None, Some(""), Some("concise"), Some("detailed"), Some("analytical"),
     Some(Bogus)}

NextSelect ==
    \E b \in BestInputs, bias \in BOOLEAN, explore \in BOOLEAN,
       choice \in {"structured", "analytical"} :
       SelectStrategy(b, bias, explore, choice)

SpecSelect == InitSelect /\ [][NextSelect]_vars

----------------------------------------------------------------------------
(* SpecExploit: a fresh user; every selection takes the exploitation       *)
(* branch; feedback follows the selection, or is recorded for a strategy   *)
(* of the caller's choosing                                                *)

NextExploit ==
    \/ SelectStrategy(None, FALSE, FALSE, "concise")
    \/ \E f \in Feedbacks : FeedbackOnSelected(f)
    \/ \E s \in {"detailed", "analytical"} : RecordFeedback(Q1, s, 1, None)

SpecExploit == Init /\ [][NextExploit]_vars

----------------------------------------------------------------------------
(* SpecLearner: the operations of the bandit and of the clusterer called   *)
(* on the instance of one session                                          *)

NextLearner ==
    \/ \E s \in {"concise", Bogus}, f \in {1, 0, -1} :
          RecordFeedback(Q1, s, f, None)
    \/ \E e \in BOOLEAN : SelectStrategy(None, FALSE, e, "detailed")
    \/ GetPerformanceMetrics
    \/ GetQueryImprovement(Q2)
    \/ AssignCluster(Q1, OracleFails)
    \/ RecordStrategyPerformance(ClusterN(0), "concise", 1)
    \/ GetBestStrategyForCluster(ClusterN(0))

SpecLearner == Init /\ [][NextLearner]_vars

----------------------------------------------------------------------------
(* SpecImprove: get_query_improvement asked of a returning user whose      *)
(* history is shorter than, as long as, or longer than the window          *)

\* the current queries
QueryPCW == <<"P", "c", "w">>
QueryExplain == <<"Explain", "photosynthesis", "process">>

\* past queries and their word overlap with QueryPCW: 3 of 3, 3 of 5,
\* 3 of 4 and 1 of 4
PastSame == <<"p", "c", "w">>
PastThreeOfFive == <<"p", "c", "w", "s", "t">>
PastThreeOfFour == <<"P", "c", "w", "s">>
PastOther == <<"c", "s">>

\* "What is photosynthesis?" and "explain photosynthesis process"
PastWhat == <<"What", "is", "photosynthesis?">>
PastExplain == <<"explain", "photosynthesis", "process">>

PastQueries ==
    {PastSame, PastThreeOfFive, PastThreeOfFour, PastOther, PastWhat, PastExplain}

\* the entries record_feedback appended for the queries qs, the strategy and
\* the feedback varying with the position (from position `from` + 1 on)
EntriesFor(qs, from) ==
    [i \in DOMAIN qs |->
        FeedbackEntry(qs[i], strategies[((from + i) % Len(strategies)) + 1],
                      IF (from + i) % 2 = 0 THEN 1 ELSE -1, None)]

\* an optional oldest entry, a run of entries for PastOther, and up to
\* MaxSimilar recent entries
ImproveHistories ==
    {EntriesFor(head \o [i \in 1..pad |-> PastOther] \o tail, 0) :
        head \in {<<>>, <<PastSame>>, <<PastOther>>},
        pad \in {0, Window - 2, Window - 1, Window},
        tail \in UNION {[1..n -> PastQueries] : n \in 0..MaxSimilar}}

InitImprove == \E h \in ImproveHistories : InitFrom(h)

NextImprove ==
    \E q \in {QueryPCW, QueryExplain} : GetQueryImprovement(q)

SpecImprove == InitImprove /\ [][NextImprove]_vars

----------------------------------------------------------------------------
(* SpecHint: selections for different queries and complexities, between the
   feedbacks of one session *)

Complexities == {"simple", "moderate", "complex"}

NextHint ==
    \/ \E s \in {"concise", "detailed"}, f \in Feedbacks :
          RecordFeedback(Q1, s, f, None)
    \/ \E q \in Queries, c \in Complexities,
          b \in {None, Some("concise")}, bias \in BOOLEAN,
          explore \in BOOLEAN :
          SelectStrategyFor(q, c, b, bias, explore, "structured")

SpecHint == Init /\ [][NextHint]_vars

----------------------------------------------------------------------------
(* SpecReward: the feedback submissions of one user on the answers to the
   queries of one cluster, with and without the cluster's name *)

NextReward ==
    \/ \E q \in {Q1, Q3} :
          Query(q, OracleSays(Some(RawCluster1)), ComplexityFails,
                [bias |-> TRUE, explore |-> FALSE, choice |-> "concise"],
                "docs", TRUE)
    \/ \E a \in FeedbackArgs :
          SubmitFeedback(Q1, a[1], a[2], a[3])

SpecReward == Init /\ [][NextReward]_vars

----------------------------------------------------------------------------
(* SpecPartial: feedback submissions that end with an error part-way, among
   queries and complete submissions *)

SaveSteps == {"feedback", "strategy", "clusters"}

SaveFailures == {"open", "truncated", "partial"}

NextPartial ==
    \/ Query(Q1, OracleSays(Some(RawCluster1)), ComplexityFails,
             [bias |-> TRUE, explore |-> FALSE, choice |-> "concise"],
             "docs", TRUE)
    \/ \E a \in FeedbackArgs :
          SubmitFeedback(Q1, a[1], a[2], a[3])
    \/ \E a \in FeedbackArgs, at \in SaveSteps, how \in SaveFailures :
          SubmitFeedbackSaveFails(Q1, a[1], a[2], a[3], at, how)

SpecPartial == Init /\ [][NextPartial]_vars

----------------------------------------------------------------------------
(* SpecApp: one chat session of a fresh user: indexing, questions, clicks  *)
(* on the thumbs (some ending in a save that raises) and clears            *)

\* a new session: initialize_session has run, rag_system is None
InitApp ==
    /\ strategy_stats = DefaultStats
    /\ feedback_history = <<>>
    /\ clusters = <<>>
    /\ strategy_file = Absent
    /\ feedback_file = Absent
    /\ clusters_file = Absent
    /\ alive = FALSE
    /\ saved = {}
    /\ events = NoEvents
    /\ last = Done("init", <<>>, <<>>, FALSE)
    /\ InitSession
    /\ InitPeer

NextApp ==
    \/ \E indexed \in BOOLEAN : IndexDocument(indexed)
    \/ \E retrieved \in {"docs", "error"} :
          Chat(Q1, OracleSays(Some(RawCluster1)), ComplexityFails,
               [bias |-> TRUE, explore |-> FALSE, choice |-> "concise"],
               retrieved, TRUE)
    \/ \E message_idx \in 0..(MaxMessages - 1), feedback_type \in {"up", "down"} :
          HandleFeedback(message_idx, feedback_type)
    \/ \E message_idx \in 0..(MaxMessages - 1), at \in SaveSteps,
          how \in SaveFailures :
          HandleFeedbackSaveFails(message_idx, "up", at, how)
    \/ ClearDocuments

SpecApp == InitApp /\ [][NextApp]_vars

----------------------------------------------------------------------------
(* SpecUsers: two users, each with an instance of the core, their          *)
(* operations interleaved                                                  *)

NextUsers ==
    \/ Query(Q1, OracleSays(Some(RawCluster1)), ComplexityFails,
             [bias |-> TRUE, explore |-> FALSE, choice |-> "concise"],
             "docs", TRUE)
    \/ \E a \in {<<"concise", 1, None>>, <<"concise", -1, Some(ClusterN(1))>>} :
          SubmitFeedback(Q1, a[1], a[2], a[3])
    \/ Construct
    \/ PeerConstruct(OtherUser)
    \/ PeerQuery(Q3, OracleFails)
    \/ \E a \in {<<"detailed", 1, None>>, <<"detailed", -1, Some(ClusterN(0))>>} :
          PeerSubmitFeedback(Q3, a[1], a[2], a[3])

SpecUsers == Init /\ [][NextUsers]_vars

----------------------------------------------------------------------------
(* SpecShared: one user with two sessions, each with its own instance of   *)
(* the core on the same files                                              *)

NextShared ==
    \/ \E f \in Feedbacks : SubmitFeedback(Q1, "concise", f, None)
    \/ Construct
    \/ PeerConstruct(FirstUser)
    \/ \E f \in Feedbacks : PeerSubmitFeedback(Q3, "detailed", f, None)

SpecShared == Init /\ [][NextShared]_vars

----------------------------------------------------------------------------
(* SpecBest: get_best_strategy_for_cluster asked of a user whose cluster   *)
(* cluster_0 has accumulated feedback for up to three strategies           *)

\* what record_strategy_performance leaves for a strategy after 1..MaxUses
\* events: reward_sum = positive events - negative events
PerfEntries(strategy) ==
    UNION {{[strategy |-> strategy, total |-> t, reward_sum |-> 2 * w - t] :
               w \in 0..t} : t \in 1..MaxUses}

\* the orders in which up to three strategies enter a performance map
PerfOrders ==
    {<<>>} \cup
    {o \in UNION {[1..n -> {"concise", "detailed", "analytical"}] : n \in 1..3} :
        \A i, j \in DOMAIN o : i # j => o[i] # o[j]}

PerfMaps ==
    UNION {{p \in [DOMAIN o -> UNION {PerfEntries(o[i]) : i \in DOMAIN o}] :
               \A i \in DOMAIN o : p[i].strategy = o[i]} : o \in PerfOrders}

InitBest ==
    /\ strategy_stats = DefaultStats
    /\ feedback_history = <<>>
    /\ \E p \in PerfMaps :
          clusters = <<[name |-> ClusterN(0), queries |-> <<Q1>>, perf |-> p]>>
    /\ strategy_file = Absent
    /\ feedback_file = Absent
    /\ clusters_file = Json(DumpClusters(clusters))
    /\ alive = TRUE
    /\ saved = {"clusters"}
    /\ events = NoEvents
    /\ last = Done("init", <<>>, <<>>, FALSE)
    /\ InitSession
    /\ InitPeer

NextBest ==
    \E c \in {ClusterN(0), ClusterN(1)} : GetBestStrategyForCluster(c)

SpecBest == InitBest /\ [][NextBest]_vars

----------------------------------------------------------------------------
(* Properties of the clusterer, checked under SpecCluster *)

IsPrefix(a, b) == Len(a) <= Len(b) /\ SubSeq(b, 1, Len(a)) = a

\* the cluster named name in cl (name is a key of cl)
ClusterOf(cl, name) == cl[CHOOSE i \in DOMAIN cl : cl[i].name = name]

\* cluster c of the state before is still there after, its queries extended
\* and none of its per-strategy totals decreased
Survives(c, after) ==
    /\ c.name \in Names(after)
    /\ IsPrefix(c.queries, ClusterOf(after, c.name).queries)
    /\ \A j \in DOMAIN c.perf :
          \E k \in DOMAIN ClusterOf(after, c.name).perf :
             /\ ClusterOf(after, c.name).perf[k].strategy = c.perf[j].strategy
             /\ ClusterOf(after, c.name).perf[k].total >= c.perf[j].total

\* C3: a cluster is created once and never deleted or re-created: in every
\* step each existing cluster still exists afterwards, its queries list has
\* the earlier list as a prefix, and its per-strategy totals have not
\* decreased.
C3_ClusterNeverRecreated ==
    [][\A i \in DOMAIN clusters : Survives(clusters[i], clusters')]_vars

\* C4: every assign_cluster(query) returns (name, is_new) with is_new true
\* iff name was no cluster before the call; if is_new the number of clusters
\* grows by exactly one and the new cluster's queries are exactly [query],
\* otherwise the number of clusters is unchanged; in both cases query is in
\* the returned cluster's list afterwards and no other cluster is changed.
C4_JoinOrCreate ==
    [][last'.op = "assign_cluster" =>
        LET query == last'.args[1]
            name == last'.ret[1]
            is_new == last'.ret[2]
        IN  /\ is_new <=> name \notin Names(clusters)
            /\ name \in Names(clusters')
            /\ is_new => /\ Len(clusters') = Len(clusters) + 1
                         /\ ClusterOf(clusters', name).queries = <<query>>
            /\ ~is_new => Len(clusters') = Len(clusters)
            /\ \E k \in DOMAIN ClusterOf(clusters', name).queries :
                  ClusterOf(clusters', name).queries[k] = query
            /\ \A i \in DOMAIN clusters :
                  clusters[i].name # name =>
                      /\ clusters[i].name \in Names(clusters')
                      /\ ClusterOf(clusters', clusters[i].name) = clusters[i]
    ]_vars

\* C5: in every reachable state no cluster's queries list holds the same
\* query text twice.
C5_QueriesDeduplicated ==
    \A i \in DOMAIN clusters :
        \A j, k \in DOMAIN clusters[i].queries :
            j # k => clusters[i].queries[j] # clusters[i].queries[k]

\* the word overlaps of query q with the queries of cluster c
OverlapsIn(c, q) == {Overlap(q, c.queries[j]) : j \in DOMAIN c.queries}

\* the word overlaps of query q with every query of every cluster
Overlaps(cl, q) == UNION {OverlapsIn(cl[i], q) : i \in DOMAIN cl}

----------------------------------------------------------------------------
(* Properties of get_best_strategy_for_cluster, checked under SpecBest *)

\* entry j of perf has the maximal average among the entries used at all
MaxAverage(perf, j) ==
    /\ perf[j].total > 0
    /\ \A k \in DOMAIN perf :
          perf[k].total > 0 =>
              perf[k].reward_sum * perf[j].total
                  <= perf[j].reward_sum * perf[k].total

\* C11: get_best_strategy_for_cluster(c) returns, among the strategies of c
\* with total > 0, the first in insertion order whose reward_sum/total is
\* maximal, and only if that maximum is strictly positive; it returns none
\* when c is unknown, has no recorded performance, or every average is <= 0.
C11_BestIsFirstMaxPositive ==
    [][last'.op = "get_best_strategy_for_cluster" =>
        LET c == last'.args[1]
            perf == ClusterOf(clusters, c).perf
        IN  IF c \notin Names(clusters) THEN last'.ret = None
            ELSE IF \A j \in DOMAIN perf :
                       perf[j].total = 0 \/ perf[j].reward_sum <= 0
                 THEN last'.ret = None
                 ELSE \E j \in DOMAIN perf :
                         /\ MaxAverage(perf, j)
                         /\ \A h \in 1..(j - 1) : ~MaxAverage(perf, h)
                         /\ last'.ret = Some(perf[j].strategy)
    ]_vars

\* C11 witness: three strategies were used, the last two tie for the best
\* positive average, the first has a lower one, and the second is returned
C11_Witness ==
    /\ last.op = "get_best_strategy_for_cluster"
    /\ Len(clusters[1].perf) = 3
    /\ ~MaxAverage(clusters[1].perf, 1)
    /\ MaxAverage(clusters[1].perf, 2)
    /\ MaxAverage(clusters[1].perf, 3)
    /\ clusters[1].perf[2].total # clusters[1].perf[3].total
    /\ last.ret = Some(clusters[1].perf[2].strategy)

\* C11 witness of the refusal: a strategy used MaxUses times with a
\* non-positive average is not returned
C11_WitnessNone ==
    /\ last.op = "get_best_strategy_for_cluster"
    /\ last.args[1] = ClusterN(0)
    /\ \E j \in DOMAIN clusters[1].perf : clusters[1].perf[j].total = MaxUses
    /\ last.ret = None

----------------------------------------------------------------------------
(* Properties of select_strategy, checked under SpecSelect *)

\* C12: select_strategy can return through the cluster-bias path only when
\* cluster_best_strategy is non-null, a member of S, and its global stats
\* have total >= 3 and 10 * reward_sum > 3 * total; in every other state the
\* result is that of the epsilon/UCB step alone.
C12_BiasOnlyWhenProven ==
    [][last'.op = "select_strategy" =>
        LET best == last'.args[1]
            regular == IF last'.args[3] THEN last'.args[4]
                       ELSE UcbChoice(strategy_stats)
            proven == /\ best # None
                      /\ best[1] \in StrategySet
                      /\ strategy_stats[best[1]].total >= 3
                      /\ 10 * strategy_stats[best[1]].reward_sum
                             > 3 * strategy_stats[best[1]].total
        IN  /\ ~proven => last'.ret = <<regular, k_values(regular)>>
            /\ last'.ret[1] # regular => proven /\ last'.ret[1] = best[1]
    ]_vars

\* C12 witness: concise, used exactly 3 times with reward_sum 1, is returned
\* through the bias path where the epsilon/UCB step would return another
C12_Witness ==
    /\ last.op = "select_strategy"
    /\ last.args[1] = Some("concise")
    /\ strategy_stats["concise"].total = 3
    /\ strategy_stats["concise"].reward_sum = 1
    /\ last.ret[1] = "concise"
    /\ last.ret[1] # (IF last.args[3] THEN last.args[4]
                      ELSE UcbChoice(strategy_stats))

\* C14: on every path select_strategy returns (s, k) with s one of the five
\* strategies and k the table value of s: concise 3, detailed 5,
\* structured 4, example_driven 4, analytical 6.
C14_ReturnsStrategyAndBreadth ==
    last.op = "select_strategy" =>
        /\ last.ret[1] \in {"concise", "detailed", "structured",
                             "example_driven", "analytical"}
        /\ last.ret[2] = CASE last.ret[1] = "concise" -> 3
                            [] last.ret[1] = "detailed" -> 5
                            [] last.ret[1] = "structured" -> 4
                            [] last.ret[1] = "example_driven" -> 4
                            [] last.ret[1] = "analytical" -> 6

\* C14 witness: the bias path returned detailed with breadth 5 although the
\* exploration draw fired with another choice
C14_Witness ==
    /\ last.op = "select_strategy"
    /\ last.args[1] = Some("detailed")
    /\ last.args[3]
    /\ last.ret = <<"detailed", 5>>

----------------------------------------------------------------------------
(* Properties of the exploitation branch, checked under SpecExploit *)

\* the first n entries of history h
Prefix(h, n) == SubSeq(h, 1, n)

\* every entry of h was recorded for the strategy the exploitation branch
\* selects in the state the entries before it lead to
FollowsExploitation(h) ==
    \A i \in DOMAIN h : h[i].strategy = UcbChoice(Replay(Prefix(h, i - 1)))

\* C13: whenever select_strategy takes the exploitation branch in a state
\* where some strategy has total = 0, it returns the first strategy in S
\* order with total = 0; so for a fresh user whose every selection takes the
\* exploitation branch and is followed by a feedback on the selected
\* strategy, the first five selections are the five strategies, each once.
C13_UntriedFirst ==
    /\ (/\ last.op = "select_strategy"
        /\ \E i \in DOMAIN strategies : strategy_stats[strategies[i]].total = 0)
       => \E i \in DOMAIN strategies :
             /\ strategy_stats[strategies[i]].total = 0
             /\ \A j \in 1..(i - 1) : strategy_stats[strategies[j]].total > 0
             /\ last.ret[1] = strategies[i]
    /\ FollowsExploitation(feedback_history)
       => \A i, j \in DOMAIN feedback_history :
             (i < j /\ j <= Len(strategies))
                 => feedback_history[i].strategy # feedback_history[j].strategy

\* C13 witness: the five strategies were selected and given feedback once
\* each, and a sixth selection was made and given feedback
C13_Witness ==
    /\ Len(feedback_history) = Len(strategies) + 1
    /\ FollowsExploitation(feedback_history)
    /\ {feedback_history[i].strategy : i \in 1..Len(strategies)} = StrategySet

\* C13 witness of the first part: a selection made when detailed had been
\* used and concise had not
C13_WitnessGap ==
    /\ last.op = "select_strategy"
    /\ strategy_stats["concise"].total = 0
    /\ strategy_stats["detailed"].total > 0
    /\ last.ret[1] = "concise"

----------------------------------------------------------------------------
(* Properties of the stats and the history, checked under SpecLearner *)

\* C15: the feedback history is append-only: every successful
\* record_feedback appends exactly one entry at the end, and no operation
\* removes, reorders or modifies an entry already in the history.
C15_HistoryAppendOnly ==
    [][/\ IsPrefix(feedback_history, feedback_history')
       /\ (last'.op = "record_feedback" /\ ~last'.err)
          => /\ Len(feedback_history') = Len(feedback_history) + 1
             /\ feedback_history'[Len(feedback_history')].strategy = last'.args[1]
             /\ feedback_history'[Len(feedback_history')].feedback = last'.args[2]
    ]_vars

\* C15 witness: a second entry was appended behind a first, different one
C15_Witness ==
    /\ last.op = "record_feedback"
    /\ ~last.err
    /\ Len(feedback_history) = 2
    /\ feedback_history[1].feedback # feedback_history[2].feedback
    /\ feedback_history[2].feedback = last.args[2]

\* C16 as stated: no operation ever decreases any field (wins, total,
\* reward_sum) of any strategy's global stats.
C16_NeverDecremented ==
    [][\A s \in StrategySet :
          /\ strategy_stats'[s].wins >= strategy_stats[s].wins
          /\ strategy_stats'[s].total >= strategy_stats[s].total
          /\ strategy_stats'[s].reward_sum >= strategy_stats[s].reward_sum
    ]_vars

\* C16 amended: no operation ever decreases wins or total of any strategy's
\* global stats; reward_sum is decreased only by a record_feedback for that
\* strategy with feedback <= 0, and then by exactly 1.
C16_CountersNeverDecremented ==
    [][\A s \in StrategySet :
          /\ strategy_stats'[s].wins >= strategy_stats[s].wins
          /\ strategy_stats'[s].total >= strategy_stats[s].total
          /\ strategy_stats'[s].reward_sum < strategy_stats[s].reward_sum
             => /\ last'.op = "record_feedback"
                /\ last'.args[1] = s
                /\ last'.args[2] <= 0
                /\ strategy_stats'[s].reward_sum = strategy_stats[s].reward_sum - 1
    ]_vars

\* C16 witness: a negative feedback after a positive one took reward_sum
\* back to 0 and left wins at 1
C16_Witness ==
    /\ last.op = "record_feedback"
    /\ last.args = <<"concise", -1>>
    /\ strategy_stats["concise"] = [wins |-> 1, total |-> 2, reward_sum |-> 0]

\* C17: global stats are mutated only by feedback recording:
\* select_strategy, get_performance_metrics, get_query_improvement,
\* assign_cluster, record_strategy_performance and
\* get_best_strategy_for_cluster leave every strategy's wins, total and
\* reward_sum and the feedback history unchanged.
C17_OnlyFeedbackMutatesStats ==
    [][last'.op \in {"select_strategy", "get_performance_metrics",
                     "get_query_improvement", "assign_cluster",
                     "record_strategy_performance",
                     "get_best_strategy_for_cluster"}
       => /\ \A s \in StrategySet :
                /\ strategy_stats'[s].wins = strategy_stats[s].wins
                /\ strategy_stats'[s].total = strategy_stats[s].total
                /\ strategy_stats'[s].reward_sum = strategy_stats[s].reward_sum
          /\ feedback_history' = feedback_history
    ]_vars

\* C17 witness: a selection was made by a user with recorded feedback
C17_Witness ==
    /\ last.op = "select_strategy"
    /\ strategy_stats["concise"].total = 2
    /\ Len(feedback_history) = 2

\* C18: record_feedback(s, f) derives reward = +1 if f > 0 else -1 and
\* changes the global stats of s by exactly total += 1, reward_sum +=
\* reward, wins += 1 iff reward > 0; the stats of every other strategy stay
\* unchanged.
C18_FeedbackUpdatesOneStrategy ==
    [][(last'.op = "record_feedback" /\ last'.args[1] \in StrategySet) =>
        LET s == last'.args[1]
            reward == IF last'.args[2] > 0 THEN 1 ELSE -1
        IN  /\ strategy_stats'[s].total = strategy_stats[s].total + 1
            /\ strategy_stats'[s].reward_sum = strategy_stats[s].reward_sum + reward
            /\ strategy_stats'[s].wins =
                   strategy_stats[s].wins + (IF reward > 0 THEN 1 ELSE 0)
            /\ \A t \in StrategySet \ {s} :
                   strategy_stats'[t] = strategy_stats[t]
            /\ feedback_history'[Len(feedback_history')].reward = reward
    ]_vars

\* C18 witness: a feedback of 0 was recorded as a reward of -1
C18_Witness ==
    /\ last.op = "record_feedback"
    /\ last.args = <<"concise", 0>>
    /\ strategy_stats["concise"] = [wins |-> 0, total |-> 1, reward_sum |-> -1]

----------------------------------------------------------------------------
(* Properties of get_query_improvement, checked under SpecImprove *)

\* the positions of the last 20 entries of history h
InWindow(h) == {i \in DOMAIN h : i > Len(h) - 20}

\* 5 * shared words > 3 * words of either: the Jaccard overlap of the
\* lowercased word sets of q and p is strictly greater than 0.6
OverSixTenths(q, p) ==
    5 * Cardinality(WordSet(q) \cap WordSet(p))
        > 3 * Cardinality(WordSet(q) \cup WordSet(p))

\* the positions in the window whose query matches q
Hits(h, q) == {i \in InWindow(h) : OverSixTenths(q, h[i].query)}

\* the 3 most recent of them
Shown(h, q) ==
    {i \in Hits(h, q) : Cardinality({j \in Hits(h, q) : j > i}) < 3}

\* C19: get_query_improvement(q) considers only the 20 most recent entries,
\* keeps those whose Jaccard word overlap with q is strictly greater than
\* 0.6 (exactly 3/5 is excluded), returns at most the 3 most recent of them
\* in chronological order, and sets has_similar and learning_active both to
\* true iff at least one entry matched.
C19_RecentSimilarQueries ==
    last.op = "get_query_improvement" =>
        LET h == feedback_history
            q == last.args[1]
            shown == Shown(h, q)
            similar_queries == last.ret.similar_queries
        IN  /\ last.ret.has_similar = (Hits(h, q) # {})
            /\ last.ret.learning_active = (Hits(h, q) # {})
            /\ Len(similar_queries) = Cardinality(shown)
            /\ \A i \in shown :
                  LET k == Cardinality({j \in shown : j <= i})
                  IN  /\ similar_queries[k].query = h[i].query
                      /\ similar_queries[k].strategy = h[i].strategy
                      /\ similar_queries[k].feedback = h[i].feedback

\* C19 witness: the history is longer than the window, its oldest entry
\* would match but lies outside, an entry of overlap exactly 3/5 lies
\* inside and is left out, and one entry is returned
C19_Witness ==
    /\ last.op = "get_query_improvement"
    /\ last.args[1] = QueryPCW
    /\ Len(feedback_history) > 20
    /\ feedback_history[1].query = PastSame
    /\ \E i \in InWindow(feedback_history) :
          feedback_history[i].query = PastThreeOfFive
    /\ Len(last.ret.similar_queries) = 1
    /\ last.ret.has_similar

\* C19 witness: more than 3 entries of the window match and the 3 most
\* recent are returned
C19_WitnessThree ==
    /\ last.op = "get_query_improvement"
    /\ Cardinality(Hits(feedback_history, last.args[1])) > 3
    /\ Len(last.ret.similar_queries) = 3

\* C20 as stated: if an entry for "What is photosynthesis?" is in the
\* last-20 window, get_query_improvement("Explain photosynthesis process")
\* computes a Jaccard overlap >= 0.6 between the two queries and surfaces
\* the earlier query as similar (has_similar = true).
C20_PhotosynthesisRecalled ==
    (/\ last.op = "get_query_improvement"
     /\ last.args[1] = QueryExplain
     /\ \E i \in InWindow(feedback_history) :
           feedback_history[i].query = PastWhat)
    => /\ last.ret.has_similar
       /\ \E k \in DOMAIN last.ret.similar_queries :
             last.ret.similar_queries[k].query = PastWhat

\* C20 amended: the two queries share no lowercased whitespace-separated
\* word, their Jaccard overlap is 0, and
\* get_query_improvement("Explain photosynthesis process") never surfaces an
\* entry for "What is photosynthesis?"; has_similar is true iff some other
\* entry of the window has an overlap > 0.6 with the current query.
C20_PhotosynthesisNotRecalled ==
    (last.op = "get_query_improvement" /\ last.args[1] = QueryExplain)
    => /\ WordSet(QueryExplain) \cap WordSet(PastWhat) = {}
       /\ \A k \in DOMAIN last.ret.similar_queries :
             last.ret.similar_queries[k].query # PastWhat
       /\ last.ret.has_similar
             <=> \E i \in InWindow(feedback_history) :
                    /\ feedback_history[i].query # PastWhat
                    /\ OverSixTenths(QueryExplain, feedback_history[i].query)

\* C20 witness: the most recent entry is for "What is photosynthesis?" and
\* nothing is surfaced
C20_Witness ==
    /\ last.op = "get_query_improvement"
    /\ last.args[1] = QueryExplain
    /\ feedback_history # <<>>
    /\ feedback_history[Len(feedback_history)].query = PastWhat
    /\ ~last.ret.has_similar
    /\ last.ret.similar_queries = <<>>

----------------------------------------------------------------------------
(* Properties of get_performance_metrics, checked under SpecLearner *)

\* C23: get_performance_metrics reports win_rate = 0 and avg_reward = 0 for
\* every strategy never used (total = 0), total_uses equal to the strategy's
\* total, and total_interactions equal to the length of the feedback history.
C23_MetricsOfUnused ==
    last.op = "get_performance_metrics" =>
        /\ \A s \in StrategySet :
              /\ last.ret.strategy_performance[s].total_uses
                     = strategy_stats[s].total
              /\ strategy_stats[s].total = 0 =>
                    /\ last.ret.strategy_performance[s].win_rate = 0
                    /\ last.ret.strategy_performance[s].avg_reward = 0
        /\ last.ret.total_interactions = Len(feedback_history)

\* C23 witness: metrics were read when concise had been used, and losing,
\* the other strategies had not, and a failed call had left an entry
C23_Witness ==
    /\ last.op = "get_performance_metrics"
    /\ strategy_stats["concise"].total = 1
    /\ last.ret.strategy_performance["concise"].avg_reward = -1000
    /\ last.ret.strategy_performance["detailed"].avg_reward = 0
    /\ last.ret.total_interactions = 2

----------------------------------------------------------------------------
(* Agreement of the statistics and the log, checked under SpecLearner *)

\* the positions of the history whose entry names strategy s
EntriesOf(history, s) == {i \in DOMAIN history : history[i].strategy = s}

\* C27: for a fresh user, after any sequence of record_feedback calls,
\* failing ones included, the global stats agree with the log: for every
\* strategy, total is the number of history entries with that strategy and
\* wins the number of those with a positive reward, so the length of the
\* history is the sum of the totals.
C27_StatsAgreeWithLog ==
    /\ \A s \in StrategySet :
          /\ strategy_stats[s].total
                 = Cardinality(EntriesOf(feedback_history, s))
          /\ strategy_stats[s].wins
                 = Cardinality({i \in EntriesOf(feedback_history, s) :
                                   feedback_history[i].reward > 0})
    /\ Len(feedback_history) = TotalPulls(strategy_stats)

----------------------------------------------------------------------------
(* Feedback for a strategy outside the strategy set, checked under SpecRAG *)

\* C28: record_feedback and submit_feedback called with a strategy outside
\* the fixed strategy set fail and leave the in-memory and persisted
\* feedback history, the global strategy stats and the cluster statistics
\* unchanged.
C28_UnknownStrategyNoChange ==
    [][(/\ last'.op \in {"record_feedback", "submit_feedback"}
        /\ last'.args[1] \notin StrategySet)
       => /\ last'.err
          /\ UNCHANGED <<feedback_history, feedback_file, strategy_stats,
                         strategy_file, clusters, clusters_file>>]_vars

----------------------------------------------------------------------------
(* Range of the reward sums, checked under SpecReward *)

\* C29: for a fresh user, in every state and for every strategy, reward_sum
\* is 2 * wins - total at the global level, and every (cluster, strategy)
\* counter has -total <= reward_sum <= total; hence every average reward
\* lies between -1 and 1.
C29_RewardSumRange ==
    /\ \A s \in StrategySet :
          /\ strategy_stats[s].reward_sum
                 = 2 * strategy_stats[s].wins - strategy_stats[s].total
          /\ -strategy_stats[s].total <= strategy_stats[s].reward_sum
          /\ strategy_stats[s].reward_sum <= strategy_stats[s].total
    /\ \A i \in DOMAIN clusters : \A j \in DOMAIN clusters[i].perf :
          /\ -clusters[i].perf[j].total <= clusters[i].perf[j].reward_sum
          /\ clusters[i].perf[j].reward_sum <= clusters[i].perf[j].total

\* C29 witness: a cluster holds a counter at -total, and the global stats
\* of the strategy hold that loss and a win
C29_Witness ==
    /\ strategy_stats["concise"] = [wins |-> 1, total |-> 2, reward_sum |-> 0]
    /\ \E i \in DOMAIN clusters : \E j \in DOMAIN clusters[i].perf :
          clusters[i].perf[j] = [strategy |-> "concise", total |-> 1,
                                 reward_sum |-> -1]

----------------------------------------------------------------------------
(* The feedback transaction ending part-way, checked under SpecPartial *)

\* C24: the feedback transaction tolerates partial application: when one of
\* the two updates of submit_feedback fails, afterwards each store's
\* in-memory state equals its persisted document, each store holds either
\* its value before the call or its value after a complete update, and
\* wins <= total still holds.
C24_PartialApplicationTolerated ==
    [][(last'.op = "submit_feedback" /\ last'.err)
       => /\ Persisted'.history = feedback_history'
          /\ Persisted'.stats = strategy_stats'
          /\ Persisted'.clusters = clusters'
          /\ \/ UNCHANGED <<feedback_history, strategy_stats>>
             \/ /\ Len(feedback_history') = Len(feedback_history) + 1
                /\ SubSeq(feedback_history', 1, Len(feedback_history))
                       = feedback_history
                /\ last'.args[1] \in StrategySet
                /\ strategy_stats' = UpdateStats(strategy_stats, last'.args[1],
                                                 Reward(last'.args[2]))
          /\ \/ UNCHANGED clusters
             \/ /\ Truthy(last'.args[3])
                /\ clusters' = record_strategy_performance(
                                   clusters, last'.args[3][1], last'.args[1],
                                   Reward(last'.args[2]))
          /\ \A s \in StrategySet :
                strategy_stats'[s].wins <= strategy_stats'[s].total]_vars

----------------------------------------------------------------------------
(* One feedback event per message, checked under SpecApp *)

\* C30: in a chat session each assistant message produces at most one
\* feedback event: whatever the sequence of questions, clicks on the thumbs
\* (a click whose submit_feedback fails part-way included) and clears, the
\* bandit never records more than one feedback event for a message.
C30_OneFeedbackPerMessage ==
    \A i \in DOMAIN session_state.chat_history :
        session_state.chat_history[i].recorded <= 1

----------------------------------------------------------------------------
(* Two users, checked under SpecUsers; two sessions of one user, checked   *)
(* under SpecShared                                                        *)

\* the operations of the second instance
PeerOps == {"peer.construct", "peer.query", "peer.submit_feedback"}

\* C21: users are independent: an operation (query, submit_feedback,
\* construction) performed for one user leaves the in-memory and persisted
\* feedback history, strategy stats and cluster map of the other user
\* unchanged, under any interleaving of the two users' operations.
C21_UsersIndependent ==
    [][/\ (last'.op \notin PeerOps /\ peer.user_id # FirstUser)
             => UNCHANGED <<peer, peer_files>>
       /\ (last'.op \in PeerOps /\ peer'.user_id # FirstUser)
             => UNCHANGED <<strategy_stats, feedback_history, clusters,
                           strategy_file, feedback_file, clusters_file>>]_vars

\* C21 witness: each user has submitted a feedback of their own, the other
\* user last, and each user's memory and files hold their own entry only
C21_Witness ==
    /\ last.op = "peer.submit_feedback"
    /\ peer.user_id = OtherUser
    /\ Len(peer.feedback_history) = 1
    /\ peer.feedback_history[1].strategy = "detailed"
    /\ Len(feedback_history) = 1
    /\ feedback_history[1].strategy = "concise"
    /\ Persisted.history = feedback_history
    /\ peer_files.feedback_file = Json(DumpHistory(peer.feedback_history))
    /\ peer.clusters # clusters
    /\ clusters # <<>>

\* C22: the core stays consistent when two operations on one user's
\* persisted artifacts interleave, such as two feedback submissions made
\* through two instances loaded from the same store: the persisted
\* feedback history and strategy stats are those of some serial order of
\* the submissions, so no feedback event is lost.
C22_NoFeedbackLost ==
    /\ Len(Persisted.history)
           = SumSeq([i \in 1..Len(strategies) |-> events[strategies[i]].all])
    /\ Persisted.stats = Replay(Persisted.history)

----------------------------------------------------------------------------
(* Independence of the two checks of select_strategy, checked under
   SpecSelect *)

\* C26: the cluster-bias check and the exploration check are independent and
\* sequential: when the cluster strategy does not qualify or the bias draw
\* does not fire, select_strategy returns what a call with no cluster
\* strategy returns in the same state with the same exploration draw and
\* choice, whatever the bias draw.
C26_ChecksIndependent ==
    (/\ last.op = "select_strategy"
     /\ ~(ClusterBiasQualifies(strategy_stats, last.args[1]) /\ last.args[2]))
    => \A bias_draw \in BOOLEAN :
          last.ret = select_strategy(strategy_stats, None, bias_draw,
                                     last.args[3], last.args[4])

\* C26 witness: the cluster strategy qualified, its draw did not fire, and
\* the exploration draw that followed chose the strategy
C26_Witness ==
    /\ last.op = "select_strategy"
    /\ ClusterBiasQualifies(strategy_stats, last.args[1])
    /\ ~last.args[2]
    /\ last.args[3]
    /\ last.ret[1] = last.args[4]
    /\ last.ret[1] # UcbChoice(strategy_stats)

\* C26 witness: the cluster strategy did not qualify and the UCB choice was
\* returned
C26_WitnessUnqualified ==
    /\ last.op = "select_strategy"
    /\ last.args[1] = Some("concise")
    /\ strategy_stats["concise"].total >= 3
    /\ ~ClusterBiasQualifies(strategy_stats, last.args[1])
    /\ last.args[2]
    /\ ~last.args[3]
    /\ last.ret[1] = UcbChoice(strategy_stats)

----------------------------------------------------------------------------
(* Properties of select_strategy's unused parameters, checked under SpecHint *)

\* C25: the query text and the complexity hint do not influence selection:
\* two calls of select_strategy in the same stats state, with the same
\* cluster_best_strategy and the same random draws, return the same
\* (strategy, top_k) whatever the query and the complexity.
C25_HintDoesNotInfluence ==
    [][(/\ last.op = "select_strategy"
        /\ last'.op = "select_strategy"
        /\ strategy_stats' = strategy_stats
        /\ SubSeq(last'.args, 3, 6) = SubSeq(last.args, 3, 6))
       => last'.ret = last.ret]_vars

\* C25 witness: a selection for a complex query that returned the first
\* untried strategy, not the analytical one
C25_Witness ==
    /\ last.op = "select_strategy"
    /\ last.args[1] = Q3
    /\ last.args[2] = "complex"
    /\ last.ret = <<"concise", 3>>
    /\ Len(feedback_history) = 2

----------------------------------------------------------------------------
(* Properties of the bandit and of persistence, checked under Spec *)

\* C1: for a fresh user, in every reachable state every strategy's global
\* stats satisfy wins <= total, and total = 0 implies reward_sum = 0.
C1_StatsInvariant ==
    \A s \in StrategySet :
        /\ strategy_stats[s].wins <= strategy_stats[s].total
        /\ strategy_stats[s].total = 0 => strategy_stats[s].reward_sum = 0

\* C1 witness: a strategy was rewarded once and punished once
C1_Witness ==
    /\ strategy_stats["concise"].total = 2
    /\ strategy_stats["concise"].wins = 1
    /\ strategy_stats["analytical"].total = 0

\* C7: whenever an operation has ended, normally or with an error, the
\* persisted feedback history, strategy stats and cluster map equal the
\* in-memory ones, so a new instance loads the state of the previous one.
C7_PersistedEqualsMemory ==
    alive =>
        /\ Persisted.stats = strategy_stats
        /\ Persisted.history = feedback_history
        /\ Persisted.clusters = clusters

----------------------------------------------------------------------------
(* Properties of the orchestrator, checked under SpecRAG and SpecQuery *)

\* the cluster-level totals of strategy s, summed over all clusters
ClusterTotal(cl, s) ==
    SumSeq([i \in DOMAIN cl |->
               SumSeq([j \in DOMAIN cl[i].perf |->
                          IF cl[i].perf[j].strategy = s
                          THEN cl[i].perf[j].total ELSE 0])])

\* C2: the global and per-cluster accumulators never drift out of sync:
\* every feedback event has incremented exactly one global strategy total,
\* and for every strategy the cluster-level totals summed over all clusters
\* equal the number of its feedback events submitted with an existing
\* cluster.
C2_AccumulatorsInSync ==
    \A s \in StrategySet :
        /\ strategy_stats[s].total = events[s].all
        /\ ClusterTotal(clusters, s) = events[s].known

\* C9: a failure of the text oracle in any of its modes is caught and
\* resolved by a fallback: query never propagates it, and returns a
\* response.
C9_OracleFailureInvisible ==
    (last.op = "query" /\ last.args[4] # "error") => ~last.err

----------------------------------------------------------------------------
(* Properties of the files, checked under SpecCrash *)

Files == <<strategy_file, feedback_file, clusters_file>>

\* C6: saving is an atomic overwrite: at every instant, also when the process
\* stopped in the middle of a save, each persisted document is complete,
\* never empty or partial.
C6_SaveIsAtomic ==
    \A i \in DOMAIN Files : Files[i].kind \in {"absent", "json"}

\* a file that exists and holds no complete document
Malformed(file) == file.kind \in {"empty", "partial"}

\* C10: loading returns the empty default only for a file no save ever
\* opened; when a persisted document is malformed the construction fails
\* with an error, leaves no instance, and no default stands in for it;
\* a complete document is loaded as it is.
C10_LoadDefaultOrFail ==
    [][last'.op = "construct" =>
        /\ last'.ret \cap saved = {}
        /\ (\E i \in DOMAIN Files : Malformed(Files[i])) <=> last'.err
        /\ last'.err => ~alive'
        /\ ~last'.err =>
              /\ alive'
              /\ "strategy" \in saved =>
                    DumpStats(strategy_stats') = strategy_file.doc
              /\ "feedback" \in saved =>
                    DumpHistory(feedback_history') = feedback_file.doc
              /\ "clusters" \in saved =>
                    DumpClusters(clusters') = clusters_file.doc
    ]_vars

\* C10 witness: a construction failed on a malformed cluster map while the
\* other two files were never written
C10_Witness ==
    /\ last.op = "construct"
    /\ last.err
    /\ Malformed(clusters_file)
    /\ saved = {"clusters"}


====
